---- MODULE Spec2Model ----
(***************************************************************************)
(* A model of the dependency-injection containers of this repository:     *)
(* DIContainer and the Container of src/container.ts.  A container is a   *)
(* node of a parent-pointer tree; each node owns a binding table, an      *)
(* instance store, an alias table, a tag table, a contextual binding      *)
(* table, a construction stack and a middleware list.  Every public       *)
(* operation is one action; resolve, which calls user factories that call *)
(* resolve again, is the recursive operator Resolve threading the tables  *)
(* it mutates.                                                            *)
(***************************************************************************)
EXTENDS Integers, Sequences, FiniteSets, TLC

VARIABLES
  impl,               \* which class the tree is built from
  created,            \* the containers constructed so far
  parent,             \* parent pointer of each container
  children,           \* the children list of each container
  bindings,           \* the bindings Map of each container, in insertion order
  instances,          \* the instances Map of each container
  aliases,            \* the aliases Map of each container
  tags,               \* the tags Map of each container
  contextualBindings, \* the contextualBindings Map of each container
  resolvingStack,     \* the resolvingStack of each container
  middlewares,        \* the middlewares list of each container
  last,               \* the call made by the latest step and its outcome
  tagLog,             \* the identifiers handed to tag(), call after call
  mod,                \* the Container of src/mod.ts: its Maps and latest call
  pending             \* the promises of async factories and of resolveAsync calls

vars == <<impl, created, parent, children, bindings, instances, aliases, tags,
          contextualBindings, resolvingStack, middlewares, last, tagLog, mod,
          pending>>

(***************************************************************************)
(* Bounds of the model.                                                    *)
(***************************************************************************)
MaxContainers == 3
MaxTagLen == 2
MaxMiddlewares == 2
MaxGive == 1
MaxParams == 2
MaxExtend == 2

Containers == 1..MaxContainers
Root == 1
NoParent == 0

\* Identifiers (Bindable): names used as binding keys, alias names, consumers.
Ids == {"A", "B", "L"}
TagNames == {"t"}
NoContext == "undefined"

Classes == {"DIContainer", "Container"}
Lifetimes == {"Singleton", "Transient", "Scoped"}

(***************************************************************************)
(* Values.  An object built by a factory is identified by the place it was *)
(* built at (the factory f, run for identifier key by container c) and a   *)
(* serial number n that tells it from the other objects built there that   *)
(* something still refers to.  The other values are literals, undefined,   *)
(* the proxy Container.resolve returns for a cycle, and the rejected       *)
(* promise applyMiddleware returns.                                        *)
(***************************************************************************)
Obj(n, f, c, key) == [n |-> n, f |-> f, c |-> c, key |-> key, k |-> "obj"]
Lit(n) == [n |-> n, f |-> "", c |-> 0, key |-> "", k |-> "lit"]
Undefined == [n |-> 0, f |-> "", c |-> 0, key |-> "", k |-> "undefined"]
ProxyOf(x) == [n |-> 0, f |-> "", c |-> 0, key |-> x, k |-> "proxy"]
Rejected(why) == [n |-> 0, f |-> why, c |-> 0, key |-> "", k |-> "rejected"]
\* The n-th promise an async factory returned while suspended.
PromiseOf(n, f, c, key) == [n |-> n, f |-> f, c |-> c, key |-> key, k |-> "promise"]

\* JavaScript truthiness of a value (!instance, binding.instance && ...).
Truthy(v) == \/ v.k \in {"obj", "proxy", "rejected", "promise"}
             \/ v.k = "lit" /\ v.n # 0

(***************************************************************************)
(* Factories.  A factory is user code; the model draws it from a menu of   *)
(* shapes: it resolves its dependencies on the container it is handed, in  *)
(* order, and then returns a new object, which exposes a dispose() method  *)
(* or not; or it forwards: it returns what its last dependency resolved   *)
(* to; or it is an async function that fails: it returns a promise that    *)
(* rejects; or it is an async function that suspends before it resolves    *)
(* anything: it returns a pending promise, and the rest of its body runs   *)
(* in a later step.                                                        *)
(***************************************************************************)
Dep(id, ctx) == [id |-> id, ctx |-> ctx]

\* A synchronous factory that builds an object or forwards.
Sync(deps, hook, forwards) ==
  [deps |-> deps, hook |-> hook, forwards |-> forwards, rejects |-> FALSE,
   awaits |-> FALSE]

\* An async factory that awaits something (a timer, say), then awaits
\* resolveAsync of each of its dependencies and returns a new object.
Later(deps) == [Sync(deps, TRUE, FALSE) EXCEPT !.awaits = TRUE]

Factories ==
  [ new    |-> Sync(<<>>, TRUE, FALSE),
    plain  |-> Sync(<<>>, FALSE, FALSE),
    needsA |-> Sync(<<Dep("A", NoContext)>>, TRUE, FALSE),
    needsB |-> Sync(<<Dep("B", NoContext)>>, TRUE, FALSE),
    needsBforA |-> Sync(<<Dep("B", "A")>>, TRUE, FALSE),
    passB  |-> Sync(<<Dep("B", NoContext)>>, FALSE, TRUE),
    failing |-> [Sync(<<>>, FALSE, FALSE) EXCEPT !.rejects = TRUE],
    later  |-> Later(<<>>),
    laterA |-> Later(<<Dep("A", NoContext)>>),
    laterB |-> Later(<<Dep("B", NoContext)>>) ]

FactoryNames == DOMAIN Factories

\* typeof instance.dispose === 'function'
HasDispose(v) == v.k = "obj" /\ Factories[v.f].hook

\* Schemas.  schema.parse(instance) succeeds: the one schema of the model
\* describes the objects that have a dispose method.
Schemas == {"disposable"}
Conforms(schema, v) == schema = "disposable" /\ HasDispose(v)

(***************************************************************************)
(* Errors.                                                                 *)
(***************************************************************************)
NoError == [id |-> "", type |-> "none", chain |-> <<>>]
CircularDependencyError(chain) ==
  [id |-> "", type |-> "CircularDependencyError", chain |-> chain]
UnresolvedDependencyError(id) ==
  [id |-> id, type |-> "UnresolvedDependencyError", chain |-> <<>>]
InvalidTagError(tag) ==
  [id |-> tag, type |-> "InvalidTagError", chain |-> <<>>]
InvalidSchemaError(abstract) ==
  [id |-> abstract, type |-> "InvalidSchemaError", chain |-> <<>>]

(***************************************************************************)
(* Outcomes of a call: the tables as the call left them, and either the    *)
(* value returned or the error thrown.                                     *)
(***************************************************************************)
Returned(st, v) == [st |-> st, ok |-> TRUE, val |-> v, err |-> NoError]
Thrown(st, e) == [st |-> st, ok |-> FALSE, val |-> Undefined, err |-> e]

(***************************************************************************)
(* Records of the containers.                                              *)
(***************************************************************************)
\* An entry of the bindings Map, under its key.
Binding(abstract, factory, lifetime, resolver) ==
  [key |-> abstract, factory |-> factory, lifetime |-> lifetime,
   resolver |-> resolver, instance |-> Undefined]

\* An entry of a contextualBindings list.
ContextualBinding(when, need, give) ==
  [when |-> when, need |-> need, give |-> give]

\* What give() is handed: a function of the container (the factory f) or a
\* value.
GiveFunction(f) == [f |-> f, fn |-> TRUE, value |-> Undefined]
GiveValue(v) == [f |-> "", fn |-> FALSE, value |-> v]

\* An invocation of the factory f registered under key, on container c.
Call(c, key, f) == [f |-> f, c |-> c, key |-> key]

\* The tables a resolution reads and writes: the bindings, the instance
\* stores, the construction stacks, the objects in use and the log of the
\* factories invoked, in call order.
Threaded(bindingsNow, instancesNow, stack, used, calls) ==
  [bindings |-> bindingsNow, instances |-> instancesNow, stack |-> stack,
   used |-> used, calls |-> calls, ran |-> <<>>]

(***************************************************************************)
(* Map and array helpers.  A Map that is iterated (bindings) is a sequence *)
(* of entries in insertion order; the others are functions on their keys.  *)
(***************************************************************************)
Includes(seq, x) == \E i \in 1..Len(seq) : seq[i] = x
Front(seq) == SubSeq(seq, 1, Len(seq) - 1)

MapHas(m, key) == \E i \in 1..Len(m) : m[i].key = key
MapGet(m, key) == m[CHOOSE i \in 1..Len(m) : m[i].key = key]
MapSet(m, key, entry) ==
  IF MapHas(m, key)
  THEN [i \in 1..Len(m) |-> IF m[i].key = key THEN entry ELSE m[i]]
  ELSE Append(m, entry)

\* f with key k set to v (Map.set on a Map that is never iterated).
Put(f, k, v) == [x \in DOMAIN f \cup {k} |-> IF x = k THEN v ELSE f[x]]
Empty == [x \in {} |-> Undefined]

\* new: an object no table refers to, under the smallest serial number free
\* at the place it is built.
NewObject(used, f, c, key) ==
  Obj(CHOOSE n \in 1..(Cardinality(used) + 1) :
        /\ Obj(n, f, c, key) \notin used
        /\ \A m \in 1..(n - 1) : Obj(m, f, c, key) \in used,
      f, c, key)

\* getAlias following the alias table until a name that is no alias (two
\* hops at most with the names of the model).
GetAliasTransitive(c, abstract) ==
  IF abstract \in DOMAIN aliases[c]
  THEN IF aliases[c][abstract] \in DOMAIN aliases[c]
       THEN aliases[c][aliases[c][abstract]]
       ELSE aliases[c][abstract]
  ELSE abstract

(***************************************************************************)
(* getAlias: one hop through the alias table of the container asked.       *)
(***************************************************************************)
GetAlias(c, abstract) ==
  IF abstract \in DOMAIN aliases[c] THEN aliases[c][abstract] ELSE abstract

(***************************************************************************)
(* applyMiddleware.  Middlewares are user functions of four shapes: pass   *)
(* returns next(); short returns a value of its own and never calls next;  *)
(* twice calls next() two times and returns the second result; throws      *)
(* raises an error.  Dispatch(mws, i, index, v) is dispatch(i) with the    *)
(* shared counter at index, v being what the innermost factory returns;    *)
(* it yields the value returned, the functions run, in order (a middleware *)
(* by its position in the list, the innermost factory as 0), and the       *)
(* counter afterwards.                                                     *)
(***************************************************************************)
MiddlewareKinds == {"pass", "short", "twice", "throws"}
ShortValue == Lit(7)

\* What a function run as j-th of the chain adds in front of the runs of
\* the dispatch calls it makes.
Ran(j, d) == [d EXCEPT !.ran = <<j>> \o @]

\* The second next() of a middleware, once being the outcome of its first.
Again(once, second) == [second EXCEPT !.ran = once.ran \o @]

RECURSIVE Dispatch(_, _, _, _)

\* Dispatch without the check of the shared counter.
DispatchUnguarded(mws, i, index, v) ==
  IF i = Len(mws) THEN [val |-> v, ran |-> <<0>>, index |-> i]
  ELSE IF i > Len(mws) THEN [val |-> Undefined, ran |-> <<>>, index |-> i]
  ELSE CASE mws[i + 1] = "pass" -> Ran(i + 1, Dispatch(mws, i + 1, i, v))
         [] mws[i + 1] = "short" -> [val |-> ShortValue, ran |-> <<i + 1>>, index |-> i]
         [] mws[i + 1] = "twice" ->
              Ran(i + 1, Again(Dispatch(mws, i + 1, i, v),
                               Dispatch(mws, i + 1, Dispatch(mws, i + 1, i, v).index, v)))
         [] mws[i + 1] = "throws" ->
              [val |-> Rejected("middleware error"), ran |-> <<i + 1>>, index |-> i]

Dispatch(mws, i, index, v) ==
  IF i <= index
  THEN [val |-> Rejected("next() called multiple times"), ran |-> <<>>, index |-> index]
  ELSE IF i = Len(mws) THEN [val |-> v, ran |-> <<0>>, index |-> i]
  ELSE IF i > Len(mws) THEN [val |-> Undefined, ran |-> <<>>, index |-> i]
  ELSE CASE mws[i + 1] = "pass" -> Ran(i + 1, Dispatch(mws, i + 1, i, v))
         [] mws[i + 1] = "short" -> [val |-> ShortValue, ran |-> <<i + 1>>, index |-> i]
         [] mws[i + 1] = "twice" ->
              Ran(i + 1, Again(Dispatch(mws, i + 1, i, v),
                               Dispatch(mws, i + 1, Dispatch(mws, i + 1, i, v).index, v)))
         [] mws[i + 1] = "throws" ->
              [val |-> Rejected("middleware error"), ran |-> <<i + 1>>, index |-> i]

\* applyMiddleware(() => instance) on the middlewares in the reverse order.
ApplyMiddlewareReversed(c, instance) ==
  Dispatch([i \in 1..Len(middlewares[c]) |->
              middlewares[c][Len(middlewares[c]) + 1 - i]], 0, -1, instance)

\* applyMiddleware(() => instance): the value returned and the functions run.
ApplyMiddleware(c, instance) == Dispatch(middlewares[c], 0, -1, instance)

\* A chain that hands back what the value-producing step returns.
PassThrough(c) == \A i \in 1..Len(middlewares[c]) : middlewares[c][i] = "pass"

(***************************************************************************)
(* resolve.  The tables a resolution mutates are threaded through the      *)
(* recursion as st: the bindings (their instance fields), the instance     *)
(* stores, the construction stacks, the objects in use and the log of the  *)
(* factories and givers invoked, in call order.                            *)
(***************************************************************************)
\* The first contextual binding of consumer context whose need is abstract
\* (contextualBindings.get(context) || []).find(b => b.need === abstract).
ContextualFor(c, context, abstract) ==
  IF context \in DOMAIN contextualBindings[c]
  THEN LET list == contextualBindings[c][context]
           hits == {i \in 1..Len(list) : list[i].need = abstract}
       IN IF hits = {} THEN <<>>
          ELSE <<list[CHOOSE i \in hits : \A j \in hits : i <= j]>>
  ELSE <<>>

RECURSIVE Resolve(_, _, _, _)
RECURSIVE ResolveDeps(_, _, _, _, _, _)

\* The factory body from its i-th dependency on, r being the outcome of
\* what it has done so far: resolve the dependencies in order on the
\* container handed in, then return the last of them, a promise that
\* rejects, or a new object.
ResolveDeps(r, c, key, f, deps, i) ==
  IF ~r.ok THEN r
  ELSE IF i > Len(deps)
  THEN IF Factories[f].forwards THEN r
       ELSE IF Factories[f].rejects THEN Returned(r.st, Rejected("factory error"))
       ELSE
       Returned([r.st EXCEPT !.used = @ \cup {NewObject(r.st.used, f, c, key)}],
                NewObject(r.st.used, f, c, key))
  ELSE ResolveDeps(Resolve(r.st, c, deps[i].id, deps[i].ctx),
                   c, key, f, deps, i + 1)

\* The invocations, in a call log, of async factories that suspend: each
\* returned a promise of its own.
Launched(calls) == Cardinality({i \in 1..Len(calls) : Factories[calls[i].f].awaits})

\* factory(container): an invocation of the user's factory f, registered
\* under key (or given for key).
RunFactory(st, c, key, f) ==
  IF Factories[f].awaits
  THEN Returned([st EXCEPT !.calls = Append(@, Call(c, key, f))],
                PromiseOf(Len(pending.promises) + Launched(st.calls) + 1, f, c, key))
  ELSE
  ResolveDeps(Returned([st EXCEPT !.calls = Append(@, Call(c, key, f))], Undefined),
              c, key, f, Factories[f].deps, 1)

\* container.instances.set(abstract, instance) of the scoped resolver, r
\* being the outcome of the factory.
StoreScoped(r, c, key) ==
  IF r.ok THEN [r EXCEPT !.st.instances[c] = Put(@, key, r.val)] ELSE r

\* The resolver closure scoped() registers: one instance per container
\* handed in, kept in that container's instance store.
ScopedResolver(st, c, key, f) ==
  IF key \in DOMAIN st.instances[c]
  THEN Returned(st, st.instances[c][key])
  ELSE StoreScoped(RunFactory(st, c, key, f), c, key)

\* build(binding, context): binding.resolver(this, context).
Build(st, c, binding) ==
  IF binding.resolver = "scoped"
  THEN ScopedResolver(st, c, binding.key, binding.factory)
  ELSE RunFactory(st, c, binding.key, binding.factory)

\* The giver of a contextual binding: called with the container when it is
\* a function, used as it is otherwise.
Give(st, c, abstract, giver) ==
  IF giver.fn THEN RunFactory(st, c, abstract, giver.f)
  ELSE Returned(st, giver.value)

\* if (context) { ... }: what the contextual binding of the consumer gives,
\* undefined when there is none.
GivenFor(st, c, abstract, context) ==
  IF context # NoContext /\ ContextualFor(c, context, abstract) # <<>>
  THEN Give(st, c, abstract, ContextualFor(c, context, abstract)[1].give)
  ELSE Returned(st, Undefined)

\* if (!instance) instance = this.build(binding, context)
BuildUnlessGiven(given, c, binding) ==
  IF ~given.ok THEN given
  ELSE IF ~Truthy(given.val) THEN Build(given.st, c, binding)
  ELSE given

\* CacheSingleton storing what was made whatever the lifetime.
CacheAnyLifetime(made, c, abstract, binding) ==
  IF made.ok
  THEN [made EXCEPT
          !.st.bindings[c] =
              [i \in 1..Len(@) |->
                 IF @[i].key = abstract THEN [@[i] EXCEPT !.instance = made.val] ELSE @[i]],
          !.st.instances[c] = Put(@, abstract, made.val)]
  ELSE made

\* if (binding.lifetime === Lifetime.Singleton) { binding.instance = instance;
\* this.instances.set(abstract, instance) }
CacheSingleton(made, c, abstract, binding) ==
  IF made.ok /\ binding.lifetime = "Singleton"
  THEN [made EXCEPT
          !.st.bindings[c] =
              [i \in 1..Len(@) |->
                 IF @[i].key = abstract THEN [@[i] EXCEPT !.instance = made.val] ELSE @[i]],
          !.st.instances[c] = Put(@, abstract, made.val)]
  ELSE made

\* The branch of resolve that consults the contextual bindings, builds and
\* caches a Singleton.
ContextThenBuild(st, c, abstract, binding, context) ==
  CacheSingleton(BuildUnlessGiven(GivenFor(st, c, abstract, context), c, binding),
                 c, abstract, binding)

\* The lifetime dispatch of DIContainer.resolve.
InstantiateDI(st, c, abstract, binding, context) ==
  IF binding.lifetime = "Singleton" /\ Truthy(binding.instance)
  THEN Returned(st, binding.instance)
  ELSE IF binding.lifetime = "Scoped"
  THEN ScopedResolver(st, c, binding.key, binding.factory)
  ELSE ContextThenBuild(st, c, abstract, binding, context)

\* The lifetime dispatch of Container.resolve (src/container.ts): no branch
\* of its own for Scoped.
InstantiateContainer(st, c, abstract, binding, context) ==
  IF binding.lifetime = "Singleton" /\ Truthy(binding.instance)
  THEN Returned(st, binding.instance)
  ELSE ContextThenBuild(st, c, abstract, binding, context)

\* The return of what applyMiddleware returned, d.
Delivered(st, d) == Returned([st EXCEPT !.ran = @ \o d.ran], d.val)

\* return this.applyMiddleware(() => instance), r being the outcome of the
\* lifetime dispatch.
ReturnThroughMiddleware(r, c) ==
  IF r.ok THEN Delivered(r.st, ApplyMiddleware(c, r.val)) ELSE r

\* ResolveBody answering undefined for an identifier nobody provides.
ResolveBodyLenient(st, c, abstract, originalAbstract, context) ==
  IF ~MapHas(st.bindings[c], abstract)
  THEN IF parent[c] # NoParent
       THEN Resolve(st, parent[c], originalAbstract, NoContext)
       ELSE Returned(st, Undefined)
  ELSE ReturnThroughMiddleware(
         IF impl = "DIContainer"
         THEN InstantiateDI(st, c, abstract, MapGet(st.bindings[c], abstract), context)
         ELSE InstantiateContainer(st, c, abstract, MapGet(st.bindings[c], abstract), context),
         c)

\* The try block of resolve.
ResolveBody(st, c, abstract, originalAbstract, context) ==
  IF ~MapHas(st.bindings[c], abstract)
  THEN IF parent[c] # NoParent
       THEN Resolve(st, parent[c], originalAbstract, NoContext)
       ELSE Thrown(st, UnresolvedDependencyError(originalAbstract))
  ELSE ReturnThroughMiddleware(
         IF impl = "DIContainer"
         THEN InstantiateDI(st, c, abstract, MapGet(st.bindings[c], abstract), context)
         ELSE InstantiateContainer(st, c, abstract, MapGet(st.bindings[c], abstract), context),
         c)

\* OnCycle reporting the construction stack without the identifier that
\* closes the cycle.
OnCycleOpenChain(st, c, abstract) ==
  IF impl = "DIContainer"
  THEN Thrown(st, CircularDependencyError(st.stack[c]))
  ELSE Returned(st, ProxyOf(abstract))

\* What resolve does on finding the identifier on the construction stack.
OnCycle(st, c, abstract) ==
  IF impl = "DIContainer"
  THEN Thrown(st, CircularDependencyError(Append(st.stack[c], abstract)))
  ELSE Returned(st, ProxyOf(abstract))

\* Pop leaving the construction stack as it is.
PopNothing(r, c) == r

\* finally { this.resolvingStack.pop() }
Pop(r, c) == [r EXCEPT !.st.stack[c] = Front(@)]

\* Resolve handing a stored instance to the middlewares before returning it.
ResolveStoredThroughMiddleware(st, c, originalAbstract, context) ==
  LET abstract == GetAlias(c, originalAbstract)
  IN IF abstract \in DOMAIN st.instances[c]
     THEN Returned(st, ApplyMiddleware(c, st.instances[c][abstract]).val)
     ELSE IF Includes(st.stack[c], abstract)
     THEN OnCycle(st, c, abstract)
     ELSE Pop(ResolveBody([st EXCEPT !.stack[c] = Append(@, abstract)],
                          c, abstract, originalAbstract, context), c)

Resolve(st, c, originalAbstract, context) ==
  LET abstract == GetAlias(c, originalAbstract)
  IN IF abstract \in DOMAIN st.instances[c]
     THEN Returned(st, st.instances[c][abstract])
     ELSE IF Includes(st.stack[c], abstract)
     THEN OnCycle(st, c, abstract)
     ELSE Pop(ResolveBody([st EXCEPT !.stack[c] = Append(@, abstract)],
                          c, abstract, originalAbstract, context), c)

(***************************************************************************)
(* The Container of src/mod.ts.                                            *)
(***************************************************************************)
\* The constructors handed to the container, the string identifiers, and
\* what a binding can be registered under.
Constructors == {"A", "B", "C"}
Names == {"config"}
Bindables == Constructors \cup Names

\* The values of this container: instances, constructors (the proxied
\* constructor register() binds), arrow functions, and what an extender made
\* of a value.
InstanceOf(n, type) == [n |-> n, f |-> "", c |-> 0, key |-> type, k |-> "instance"]
ConstructorOf(type) == [n |-> 0, f |-> "", c |-> 0, key |-> type, k |-> "constructor"]
ArrowOf(a) == [n |-> 0, f |-> a, c |-> 0, key |-> "", k |-> "arrow"]
ExtendedBy(extender, v) == [k |-> "extended", by |-> extender, of |-> v]
\* () => concrete
ThunkOf(v) == [k |-> "thunk", of |-> v]

\* typeof v === 'function'
IsFunction(v) == v.k \in {"arrow", "constructor"}

\* The extenders handed to extend().
Extenders == {"decorate", "wrap"}

\* new: an instance nothing refers to yet.
NewInstance(used, type) ==
  InstanceOf(CHOOSE n \in 1..(Cardinality(used) + 1) :
               /\ InstanceOf(n, type) \notin used
               /\ \A m \in 1..(n - 1) : InstanceOf(m, type) \in used,
             type)

\* The functions stored in the bindings Map.  An arrow function of a caller
\* builds a new object, but for the one named nothing, which returns
\* undefined.
ArrowFactory(a) == [t |-> "arrow", a |-> a]
\* () => implementation, () => instance
ReturnsFactory(v) == [t |-> "returns", v |-> v]
\* the wrapper of bindSingleton
SingletonFactory(type, factory) == [t |-> "singleton", a |-> type, inner |-> factory]
\* () => proxiedConstructor
ProxiedFactory(constructor) == [t |-> "proxied", a |-> constructor]
\* () => extender(originalFactory())
ExtendedFactory(extender, originalFactory) ==
  [t |-> "extended", a |-> extender, inner |-> originalFactory]
\* the wrapper the Laravel-style Container binds around concrete
ConcreteFactory(concrete) == [t |-> "concrete", v |-> concrete]

\* What a call threads along: the Maps it may write, the instances in use,
\* the constructors run and the values the contextual givers yielded.
Through(bindingsNow, singletonsNow, used) ==
  [bindings |-> bindingsNow, used |-> used, singletons |-> singletonsNow,
   constructed |-> <<>>, gave |-> <<>>]

\* new X(...)
Construct(st, type) ==
  Returned([st EXCEPT !.used = @ \cup {NewInstance(st.used, type)},
                      !.constructed = Append(@, type)],
           NewInstance(st.used, type))

\* this.singletons.set(type, factory()); return this.singletons.get(type)
StoreSingleton(r, type) ==
  Returned([r.st EXCEPT !.singletons = Put(@, type, r.val)], r.val)

ExtendResult(r, extender) == Returned(r.st, ExtendedBy(extender, r.val))

\* factory(): the call of a function stored in the bindings Map.
RECURSIVE CallFactory(_, _)
CallFactory(st, factory) ==
  CASE factory.t = "arrow" ->
         IF factory.a = "nothing" THEN Returned(st, Undefined)
         ELSE Returned([st EXCEPT !.used = @ \cup {NewInstance(st.used, factory.a)}],
                       NewInstance(st.used, factory.a))
    [] factory.t = "returns" -> Returned(st, factory.v)
    [] factory.t = "proxied" -> Returned(st, ConstructorOf(factory.a))
    [] factory.t = "extended" ->
         ExtendResult(CallFactory(st, factory.inner), factory.a)
    [] factory.t = "singleton" ->
         IF factory.a \in DOMAIN st.singletons
         THEN Returned(st, st.singletons[factory.a])
         ELSE StoreSingleton(CallFactory(st, factory.inner), factory.a)
    [] factory.t = "concrete" ->
         IF factory.v.k = "constructor" THEN Construct(st, factory.v.key)
         ELSE IF IsFunction(factory.v) THEN Returned(st, factory.v)
         ELSE Returned(st, ThunkOf(factory.v))

\* (constructor as any).paramTypes || []
ParamTypesOf(paramTypes, constructor) ==
  IF constructor \in DOMAIN paramTypes THEN paramTypes[constructor] ELSE <<>>

Passed(st, visited) == [st |-> st, ok |-> TRUE, err |-> NoError, visited |-> visited]
Failed(st, e, visited) == [st |-> st, ok |-> FALSE, err |-> e, visited |-> visited]

\* detectCircularDependencies(constructor, stack, visited): stack is the
\* path of constructor names from the one asked for, visited the names met
\* so far.  DetectParams is the loop over paramTypes from the i-th on, d the
\* outcome so far; DetectDependency is its body after dependency().
RECURSIVE DetectCircularDependencies(_, _, _, _, _)
RECURSIVE DetectParams(_, _, _, _, _)
\* DetectDependency that looks no further than the stack.
DetectDependencyShallow(paramTypes, r, stack, visited) ==
  IF r.val.k = "constructor" /\ Includes(stack, r.val.key)
  THEN Failed(r.st, CircularDependencyError(Append(stack, r.val.key)), visited)
  ELSE Passed(r.st, visited)

DetectDependency(paramTypes, r, stack, visited) ==
  IF r.val.k = "constructor"
  THEN IF Includes(stack, r.val.key)
       THEN Failed(r.st, CircularDependencyError(Append(stack, r.val.key)), visited)
       ELSE DetectCircularDependencies(paramTypes, r.st, r.val.key, stack, visited)
  ELSE Passed(r.st, visited)

DetectParams(paramTypes, d, constructor, stack, i) ==
  IF ~d.ok \/ i > Len(ParamTypesOf(paramTypes, constructor)) THEN d
  ELSE IF ParamTypesOf(paramTypes, constructor)[i] \notin DOMAIN d.st.bindings
  THEN Failed(d.st, UnresolvedDependencyError(ParamTypesOf(paramTypes, constructor)[i]),
              d.visited)
  ELSE DetectParams(
         paramTypes,
         DetectDependency(
           paramTypes,
           CallFactory(d.st, d.st.bindings[ParamTypesOf(paramTypes, constructor)[i]]),
           stack, d.visited),
         constructor, stack, i + 1)

DetectCircularDependencies(paramTypes, st, constructor, stack, visited) ==
  IF Includes(stack, constructor)
  THEN Failed(st, CircularDependencyError(Append(stack, constructor)), visited)
  ELSE IF constructor \in visited THEN Passed(st, visited)
  ELSE DetectParams(paramTypes, Passed(st, visited \cup {constructor}), constructor,
                    Append(stack, constructor), 1)

\* A detection started from a constructor, as every caller starts it.
Detect(paramTypes, st, constructor) ==
  DetectCircularDependencies(paramTypes, st, constructor, <<>>, {})

InvalidContextualBindingError(serviceName, dependencyName) ==
  [id |-> dependencyName, type |-> "InvalidContextualBindingError",
   chain |-> <<serviceName>>]
InvalidExtensionError(type) ==
  [id |-> type, type |-> "InvalidExtensionError", chain |-> <<>>]
\* new applied to something that is no constructor
TypeError == [id |-> "", type |-> "TypeError", chain |-> <<>>]

\* bind(type, factory)
BindingSet(st, type, factory) == [st EXCEPT !.bindings = Put(@, type, factory)]

\* register(constructor, paramTypes): a detection from each member of
\* paramTypes, then the binding of the proxied constructor.
RECURSIVE DetectEach(_, _, _, _)
DetectEach(paramTypes, d, types, i) ==
  IF ~d.ok \/ i > Len(types) THEN d
  ELSE DetectEach(paramTypes, Detect(paramTypes, d.st, types[i]), types, i + 1)

RegisterDetected(d, constructor) ==
  IF d.ok
  THEN Returned(BindingSet(d.st, constructor, ProxiedFactory(constructor)), Undefined)
  ELSE Thrown(d.st, d.err)

RegisterConstructor(paramTypes, st, constructor, types) ==
  RegisterDetected(DetectEach(paramTypes, Passed(st, {}), types, 1), constructor)

\* resolve(type) after its detection: factory()
ResolveDetected(d, type) ==
  IF d.ok THEN CallFactory(d.st, d.st.bindings[type]) ELSE Thrown(d.st, d.err)

\* resolve(type)
ResolveType(paramTypes, st, type) ==
  IF type \notin DOMAIN st.bindings
  THEN Thrown(st, UnresolvedDependencyError(type))
  ELSE IF type \in Constructors
  THEN ResolveDetected(Detect(paramTypes, st, type), type)
  ELSE CallFactory(st, st.bindings[type])

\* Given that passes an undefined value on.
GivenUnchecked(r, constructor, paramType) ==
  Returned([r.st EXCEPT !.gave = Append(@, r.val)], r.val)

\* The value a contextual giver yielded, for constructor's parameter.
Given(r, constructor, paramType) ==
  IF r.val = Undefined
  THEN Thrown([r.st EXCEPT !.gave = Append(@, r.val)],
              InvalidContextualBindingError(constructor, paramType))
  ELSE Returned([r.st EXCEPT !.gave = Append(@, r.val)], r.val)

\* paramTypes.map(...) of createInstance from the i-th parameter on, r the
\* outcome so far: the contextual giver of (constructor, paramType) where
\* there is one, resolve(paramType) otherwise.
RECURSIVE Params(_, _, _, _, _)
Params(paramTypes, r, contextual, constructor, i) ==
  IF ~r.ok \/ i > Len(ParamTypesOf(paramTypes, constructor)) THEN r
  ELSE IF /\ constructor \in DOMAIN contextual
          /\ ParamTypesOf(paramTypes, constructor)[i] \in DOMAIN contextual[constructor]
  THEN Params(paramTypes,
              Given(CallFactory(r.st,
                      contextual[constructor][ParamTypesOf(paramTypes, constructor)[i]]),
                    constructor, ParamTypesOf(paramTypes, constructor)[i]),
              contextual, constructor, i + 1)
  ELSE Params(paramTypes,
              ResolveType(paramTypes, r.st, ParamTypesOf(paramTypes, constructor)[i]),
              contextual, constructor, i + 1)

\* new ConstructorProxy(...params)
NewWith(p, ConstructorProxy) ==
  IF ~p.ok THEN p
  ELSE IF ConstructorProxy.k # "constructor" THEN Thrown(p.st, TypeError)
  ELSE Construct(p.st, ConstructorProxy.key)

\* createInstance after this.resolve(constructor), r being its outcome.
CreateResolved(paramTypes, r, contextual, constructor) ==
  IF ~r.ok THEN r
  ELSE NewWith(Params(paramTypes, Returned(r.st, Undefined), contextual, constructor, 1),
               r.val)

\* createInstance after its second detection.
CreateRegistered(paramTypes, d, contextual, constructor) ==
  IF ~d.ok THEN Thrown(d.st, d.err)
  ELSE CreateResolved(paramTypes, ResolveType(paramTypes, d.st, constructor),
                      contextual, constructor)

\* if (!this.bindings.has(constructor)) this.register(constructor)
EnsureRegistered(paramTypes, st, constructor) ==
  IF constructor \in DOMAIN st.bindings THEN st
  ELSE RegisterConstructor(paramTypes, st, constructor, <<>>).st

\* createInstance after its first detection.
CreateDetected(paramTypes, d, contextual, constructor) ==
  IF ~d.ok THEN Thrown(d.st, d.err)
  ELSE CreateRegistered(
         paramTypes,
         Detect(paramTypes, EnsureRegistered(paramTypes, d.st, constructor), constructor),
         contextual, constructor)

\* createInstance(constructor)
CreateInstance(paramTypes, st, contextual, constructor) ==
  CreateDetected(paramTypes, Detect(paramTypes, st, constructor), contextual, constructor)

\* The function give() stores for (constructor, type): implementation
\* itself when it is a function, () => implementation otherwise.
GiverOf(implementation) ==
  IF IsFunction(implementation) THEN ArrowFactory(implementation.f)
  ELSE ReturnsFactory(implementation)

\* give(implementation) of when(constructor).needs(type): the entry of the
\* contextualBindings Map.
ContextualSet(contextual, constructor, type, implementation) ==
  Put(contextual, constructor,
      Put(IF constructor \in DOMAIN contextual THEN contextual[constructor] ELSE Empty,
          type, GiverOf(implementation)))

\* The number of extenders layered on a factory.
RECURSIVE Extensions(_)
Extensions(factory) ==
  IF factory.t = "extended" THEN 1 + Extensions(factory.inner) ELSE 0

\* The object inside a value an extender wrapped.
RECURSIVE Core(_)
Core(v) == IF v.k = "extended" THEN Core(v.of) ELSE v

\* What the latest call of this container was and how it ended.
NoCall ==
  [type |-> "", ok |-> TRUE, val |-> Undefined, err |-> NoError, by |-> "",
   constructed |-> <<>>, gave |-> <<>>, op |-> "none"]

\* new Container(), with the static paramTypes lists of the constructors
\* that declare one.
Constructed(paramTypes) ==
  [bindings |-> Empty, contextualBindings |-> Empty, singletons |-> Empty,
   paramTypes |-> paramTypes, out |-> NoCall]

\* No constructor declares paramTypes.
NoParamTypes == [x \in {} |-> <<>>]

(***************************************************************************)
(* The state between calls.                                                *)
(***************************************************************************)
\* The record of a step that returns nothing a caller could observe.  The
\* field again tells a dispose() that follows a dispose() of the same
\* container.
Quiet ==
  [c |-> Root, id |-> "", ctx |-> NoContext, ok |-> TRUE, val |-> Undefined,
   err |-> NoError, calls |-> <<>>, ran |-> <<>>, op |-> "none", vals |-> <<>>,
   hooks |-> <<>>, again |-> FALSE]

Range(seq) == {seq[i] : i \in 1..Len(seq)}

\* No async factory has been invoked and no resolveAsync call made.
NoneInFlight == [promises |-> <<>>, tops |-> <<>>]

\* The objects something still refers to.
LiveObjects ==
  {v \in UNION {{instances[c][x] : x \in DOMAIN instances[c]}
                  \cup {e.instance : e \in Range(bindings[c])} : c \in Containers}
            \cup {last.val} \cup Range(last.vals) : v.k = "obj"}

Tables ==
  Threaded(bindings, instances, resolvingStack, LiveObjects, <<>>)

Init ==
  /\ impl \in Classes
  /\ created = {Root}
  /\ parent = [c \in Containers |-> NoParent]
  /\ children = [c \in Containers |-> <<>>]
  /\ bindings = [c \in Containers |-> <<>>]
  /\ instances = [c \in Containers |-> Empty]
  /\ aliases = [c \in Containers |-> Empty]
  /\ tags = [c \in Containers |-> Empty]
  /\ contextualBindings = [c \in Containers |-> Empty]
  /\ resolvingStack = [c \in Containers |-> <<>>]
  /\ middlewares = [c \in Containers |-> <<>>]
  /\ last = Quiet
  /\ tagLog = [c \in Containers |-> [t \in TagNames |-> <<>>]]
  /\ mod = Constructed(NoParamTypes)
  /\ pending = NoneInFlight

\* The containers whose resolutions may reach container c by delegation:
\* c and its descendants.
RECURSIVE IsAncestor(_, _)
IsAncestor(a, c) ==
  \/ a = c
  \/ parent[c] # NoParent /\ IsAncestor(a, parent[c])

(***************************************************************************)
(* Registration.                                                           *)
(***************************************************************************)
Register(c, abstract, entry) ==
  /\ c \in created
  /\ bindings' = [bindings EXCEPT ![c] = MapSet(@, abstract, entry)]
  /\ last' = Quiet
  /\ UNCHANGED <<pending, mod, impl, created, parent, children, instances, aliases, tags,
                 contextualBindings, resolvingStack, middlewares, tagLog>>

\* bind(abstract, factory) without a schema.
Bind(c, abstract, factory) ==
  Register(c, abstract, Binding(abstract, factory, "Transient", "wrapped"))

\* AfterBind registering the binding whatever the schema says.
AfterBindUnchecked(r, c, abstract, factory, schema) ==
  /\ bindings' =
       [r.st.bindings EXCEPT
          ![c] = MapSet(@, abstract, Binding(abstract, factory, "Transient", "wrapped"))]
  /\ instances' = r.st.instances
  /\ resolvingStack' = r.st.stack
  /\ last' = [c |-> c, id |-> abstract, ctx |-> NoContext,
              ok |-> r.ok /\ Conforms(schema, r.val), val |-> Undefined,
              err |-> IF ~r.ok THEN r.err
                      ELSE IF ~Conforms(schema, r.val) THEN InvalidSchemaError(abstract)
                      ELSE NoError,
              calls |-> r.st.calls, ran |-> r.st.ran, op |-> "bind", vals |-> <<>>,
              hooks |-> <<>>, again |-> FALSE]

\* The state after bind(abstract, factory, schema) whose call factory(this)
\* had the outcome r: the error of the factory is thrown again, an output
\* the schema rejects throws InvalidSchemaError, and otherwise the binding
\* is set.
AfterBind(r, c, abstract, factory, schema) ==
  /\ bindings' =
       IF r.ok /\ Conforms(schema, r.val)
       THEN [r.st.bindings EXCEPT
               ![c] = MapSet(@, abstract, Binding(abstract, factory, "Transient", "wrapped"))]
       ELSE r.st.bindings
  /\ instances' = r.st.instances
  /\ resolvingStack' = r.st.stack
  /\ last' = [c |-> c, id |-> abstract, ctx |-> NoContext,
              ok |-> r.ok /\ Conforms(schema, r.val), val |-> Undefined,
              err |-> IF ~r.ok THEN r.err
                      ELSE IF ~Conforms(schema, r.val) THEN InvalidSchemaError(abstract)
                      ELSE NoError,
              calls |-> r.st.calls, ran |-> r.st.ran, op |-> "bind", vals |-> <<>>,
              hooks |-> <<>>, again |-> FALSE]

\* bind(abstract, factory, schema).
BindSchema(c, abstract, factory, schema) ==
  /\ c \in created
  /\ AfterBind(RunFactory(Tables, c, abstract, factory), c, abstract, factory, schema)
  /\ UNCHANGED <<pending, mod, impl, created, parent, children, aliases, tags,
                 contextualBindings, middlewares, tagLog>>

SingletonBind(c, abstract, factory) ==
  Register(c, abstract, Binding(abstract, factory, "Singleton", "factory"))

TransientBind(c, abstract, factory) ==
  Register(c, abstract, Binding(abstract, factory, "Transient", "factory"))

ScopedBind(c, abstract, factory) ==
  Register(c, abstract, Binding(abstract, factory, "Scoped", "scoped"))

Instance(c, abstract, v) ==
  /\ c \in created
  /\ instances' = [instances EXCEPT ![c] = Put(@, abstract, v)]
  /\ last' = Quiet
  /\ UNCHANGED <<pending, mod, impl, created, parent, children, bindings, aliases, tags,
                 contextualBindings, resolvingStack, middlewares, tagLog>>

Alias(c, alias, abstract) ==
  /\ c \in created
  /\ aliases' = [aliases EXCEPT ![c] = Put(@, alias, abstract)]
  /\ last' = Quiet
  /\ UNCHANGED <<pending, mod, impl, created, parent, children, bindings, instances, tags,
                 contextualBindings, resolvingStack, middlewares, tagLog>>

\* TagPush setting the tag's list to the identifiers of the latest call.
TagReplace(table, abstracts, tag) == Put(table, tag, abstracts)

\* tag(abstracts, tag): push(...abstracts) onto the tag's list.
TagPush(table, abstracts, tag) ==
  Put(table, tag, (IF tag \in DOMAIN table THEN table[tag] ELSE <<>>) \o abstracts)

Tag(c, abstracts, tag) ==
  /\ c \in created
  /\ Len(tagLog[c][tag]) + Len(abstracts) <= MaxTagLen
  /\ tags' = [tags EXCEPT ![c] = TagPush(@, abstracts, tag)]
  /\ tagLog' = [tagLog EXCEPT ![c][tag] = @ \o abstracts]
  /\ last' = Quiet
  /\ UNCHANGED <<pending, mod, impl, created, parent, children, bindings, instances, aliases,
                 contextualBindings, resolvingStack, middlewares>>

\* when(concrete).needs(need).give(give)
GivePush(table, concrete, need, give) ==
  Put(table, concrete,
      Append(IF concrete \in DOMAIN table THEN table[concrete] ELSE <<>>,
             ContextualBinding(concrete, need, give)))

WhenNeedsGive(c, concrete, need, give) ==
  /\ c \in created
  /\ IF concrete \in DOMAIN contextualBindings[c]
     THEN Len(contextualBindings[c][concrete]) < MaxGive
     ELSE TRUE
  /\ contextualBindings' =
       [contextualBindings EXCEPT ![c] = GivePush(@, concrete, need, give)]
  /\ last' = Quiet
  /\ UNCHANGED <<pending, mod, impl, created, parent, children, bindings, instances, aliases,
                 tags, resolvingStack, middlewares, tagLog>>

Use(c, middleware) ==
  /\ c \in created
  /\ Len(middlewares[c]) < MaxMiddlewares
  /\ middlewares' = [middlewares EXCEPT ![c] = Append(@, middleware)]
  /\ last' = Quiet
  /\ UNCHANGED <<pending, mod, impl, created, parent, children, bindings, instances, aliases,
                 tags, contextualBindings, resolvingStack, tagLog>>

(***************************************************************************)
(* Scopes.                                                                 *)
(***************************************************************************)
NewContainer == CHOOSE c \in Containers \ created : \A d \in Containers \ created : c <= d

CreateScope(c) ==
  /\ c \in created
  /\ created # Containers
  /\ created' = created \cup {NewContainer}
  /\ parent' = [parent EXCEPT ![NewContainer] = c]
  /\ children' = [children EXCEPT ![c] = Append(@, NewContainer)]
  /\ last' = Quiet
  /\ UNCHANGED <<pending, mod, impl, bindings, instances, aliases, tags, contextualBindings,
                 resolvingStack, middlewares, tagLog>>

CreateChild(c) ==
  /\ c \in created
  /\ created # Containers
  /\ created' = created \cup {NewContainer}
  /\ parent' = [parent EXCEPT ![NewContainer] = c]
  /\ last' = Quiet
  /\ UNCHANGED <<pending, mod, impl, children, bindings, instances, aliases, tags,
                 contextualBindings, resolvingStack, middlewares,
                 tagLog>>

(***************************************************************************)
(* Resolution calls.                                                       *)
(***************************************************************************)
\* The state after a resolve call whose outcome is r.
AfterResolve(r, c, abstract, context) ==
  /\ bindings' = r.st.bindings
  /\ instances' = r.st.instances
  /\ resolvingStack' = r.st.stack
  /\ last' = [c |-> c, id |-> abstract, ctx |-> context, ok |-> r.ok,
              val |-> r.val, err |-> r.err, calls |-> r.st.calls, ran |-> r.st.ran,
              op |-> "resolve", vals |-> <<>>, hooks |-> <<>>,
              again |-> FALSE]

ResolveCall(c, abstract, context) ==
  /\ c \in created
  /\ AfterResolve(Resolve(Tables, c, abstract, context), c, abstract, context)
  /\ UNCHANGED <<pending, mod, impl, created, parent, children, aliases, tags,
                 contextualBindings, middlewares, tagLog>>

\* await of what resolve returned: a rejected promise raises its reason.
Awaited(r) ==
  IF r.ok /\ r.val.k = "rejected"
  THEN Thrown(r.st, [id |-> r.val.f, type |-> "Error", chain |-> <<>>])
  ELSE r

\* resolveAsync(abstract, context): resolve, then await.
ResolveAsyncCall(c, abstract, context) ==
  /\ c \in created
  /\ AfterResolve(Awaited(Resolve(Tables, c, abstract, context)), c, abstract, context)
  /\ UNCHANGED <<pending, mod, impl, created, parent, children, aliases, tags,
                 contextualBindings, middlewares, tagLog>>

\* resolveWithContext(abstract, context): what the contextual binding of
\* the consumer gives, or else resolve(abstract).
ResolveWithContext(st, c, abstract, context) ==
  IF ContextualFor(c, context, abstract) # <<>>
  THEN Give(st, c, abstract, ContextualFor(c, context, abstract)[1].give)
  ELSE Resolve(st, c, abstract, NoContext)

\* paramTypes.map(param => this.resolveWithContext(param, Target)) from the
\* i-th parameter on, r being the outcome so far, and then new Target(...).
\* The class Target is given by its shape f: its paramTypes are the
\* identifiers f depends on.
RECURSIVE Inject(_, _, _, _, _)
Inject(r, c, target, f, i) ==
  IF ~r.ok THEN r
  ELSE IF i > Len(Factories[f].deps)
  THEN Returned([r.st EXCEPT !.used = @ \cup {NewObject(r.st.used, f, c, target)}],
                NewObject(r.st.used, f, c, target))
  ELSE Inject(ResolveWithContext(r.st, c, Factories[f].deps[i].id, target),
              c, target, f, i + 1)

\* createInstance(Target) of DIContainer.
CreateInstanceCall(c, target, f) ==
  /\ c \in created
  /\ AfterResolve(Inject(Returned(Tables, Undefined), c, target, f, 1),
                  c, target, NoContext)
  /\ UNCHANGED <<pending, mod, impl, created, parent, children, aliases, tags,
                 contextualBindings, middlewares, tagLog>>

\* abstracts.map(abstract => this.resolve(abstract)): the members resolved
\* from the i-th on, r being the outcome so far and vals the values of the
\* earlier members.
RECURSIVE MapResolve(_, _, _, _, _)
MapResolve(r, c, abstracts, i, vals) ==
  LET sofar == IF i = 1 THEN vals ELSE Append(vals, r.val)
  IN IF ~r.ok THEN [st |-> r.st, ok |-> FALSE, err |-> r.err, vals |-> <<>>]
     ELSE IF i > Len(abstracts)
     THEN [st |-> r.st, ok |-> TRUE, err |-> NoError, vals |-> sofar]
     ELSE MapResolve(Resolve(r.st, c, abstracts[i], NoContext),
                     c, abstracts, i + 1, sofar)

\* tagged(tag) of DIContainer and of the Container of src/container.ts.
Tagged(st, c, tag) ==
  LET abstracts == IF tag \in DOMAIN tags[c] THEN tags[c][tag] ELSE <<>>
  IN MapResolve(Returned(st, Undefined), c, abstracts, 1, <<>>)

\* The state after a tagged call whose outcome is r.
AfterTagged(r, c, tag) ==
  /\ bindings' = r.st.bindings
  /\ instances' = r.st.instances
  /\ resolvingStack' = r.st.stack
  /\ last' = [c |-> c, id |-> tag, ctx |-> NoContext, ok |-> r.ok,
              val |-> Undefined, err |-> r.err, calls |-> r.st.calls, ran |-> r.st.ran,
              op |-> "tagged", vals |-> r.vals, hooks |-> <<>>,
              again |-> FALSE]

TaggedCall(c, tag) ==
  /\ c \in created
  /\ AfterTagged(Tagged(Tables, c, tag), c, tag)
  /\ UNCHANGED <<pending, mod, impl, created, parent, children, aliases, tags,
                 contextualBindings, middlewares, tagLog>>

(***************************************************************************)
(* dispose.                                                                *)
(***************************************************************************)
\* The first loop of dispose: the instances of the bindings, in the order
\* of the bindings Map, that are truthy and have a dispose method.
OwnHooks(c) ==
  SelectSeq([i \in 1..Len(bindings[c]) |-> bindings[c][i].instance],
            LAMBDA v : Truthy(v) /\ HasDispose(v))

\* One part of a disposal followed by another.
Both(one, rest) ==
  [hooks |-> one.hooks \o rest.hooks, cleared |-> one.cleared \cup rest.cleared]

\* dispose() of c: the dispose() calls it makes on instances, in order, and
\* the containers it clears.  The children are taken from i-th on.
RECURSIVE DisposeOf(_)
RECURSIVE DisposeChildren(_, _)
DisposeChildren(c, i) ==
  IF i > Len(children[c]) THEN [hooks |-> <<>>, cleared |-> {}]
  ELSE Both(DisposeOf(children[c][i]), DisposeChildren(c, i + 1))

DisposeOf(c) ==
  Both([hooks |-> OwnHooks(c), cleared |-> {c}], DisposeChildren(c, 1))

\* Cleared emptying the table of every container.
ClearedAll(table, cleared, empty) ==
  [x \in Containers |-> empty]

\* The state after dispose() of c made the calls d.hooks and cleared the
\* containers d.cleared.
Cleared(table, cleared, empty) ==
  [x \in Containers |-> IF x \in cleared THEN empty ELSE table[x]]

\* AfterDispose leaving the bindings Map as it was.
AfterDisposeKeepBindings(d, c) ==
  /\ bindings' = bindings
  /\ instances' = Cleared(instances, d.cleared, Empty)
  /\ aliases' = Cleared(aliases, d.cleared, Empty)
  /\ tags' = Cleared(tags, d.cleared, Empty)
  /\ contextualBindings' = Cleared(contextualBindings, d.cleared, Empty)
  /\ children' = Cleared(children, d.cleared, <<>>)
  /\ tagLog' = Cleared(tagLog, d.cleared, [t \in TagNames |-> <<>>])
  /\ last' = [Quiet EXCEPT !.op = "dispose", !.c = c, !.hooks = d.hooks,
                           !.again = (last.op = "dispose" /\ last.c = c)]

AfterDispose(d, c) ==
  /\ bindings' = Cleared(bindings, d.cleared, <<>>)
  /\ instances' = Cleared(instances, d.cleared, Empty)
  /\ aliases' = Cleared(aliases, d.cleared, Empty)
  /\ tags' = Cleared(tags, d.cleared, Empty)
  /\ contextualBindings' = Cleared(contextualBindings, d.cleared, Empty)
  /\ children' = Cleared(children, d.cleared, <<>>)
  /\ tagLog' = Cleared(tagLog, d.cleared, [t \in TagNames |-> <<>>])
  /\ last' = [Quiet EXCEPT !.op = "dispose", !.c = c, !.hooks = d.hooks,
                           !.again = (last.op = "dispose" /\ last.c = c)]

Dispose(c) ==
  /\ c \in created
  /\ AfterDispose(DisposeOf(c), c)
  /\ UNCHANGED <<pending, mod, impl, created, parent, resolvingStack, middlewares>>

(***************************************************************************)
(* The operations of the Container of src/mod.ts and of the Laravel-style  *)
(* Container that wraps one.                                               *)
(***************************************************************************)
diVars == <<impl, created, parent, children, bindings, instances, aliases, tags,
            contextualBindings, resolvingStack, middlewares, last, tagLog,
            pending>>

\* The instances something still refers to.
InUse ==
  {Core(mod.out.val)} \cup {Core(mod.singletons[t]) : t \in DOMAIN mod.singletons}

Maps == Through(mod.bindings, mod.singletons, InUse)

\* The state after a call with outcome r; by is the extender of an extend
\* call.
AfterCallBy(r, op, type, by) ==
  mod' = [mod EXCEPT !.bindings = r.st.bindings,
                     !.singletons = r.st.singletons,
                     !.out = [type |-> type, ok |-> r.ok, val |-> r.val,
                              err |-> r.err, by |-> by,
                              constructed |-> r.st.constructed,
                              gave |-> r.st.gave, op |-> op]]

AfterCall(r, op, type) == AfterCallBy(r, op, type, "")

\* bind(type, factory)
ModBind(type, a) ==
  /\ AfterCall(Returned(BindingSet(Maps, type, ArrowFactory(a)), Undefined),
               "bind", type)
  /\ UNCHANGED diVars

\* bindSingleton(type, factory), singleton(type, factory)
ModBindSingleton(type, a) ==
  /\ AfterCall(Returned(BindingSet(Maps, type, SingletonFactory(type, ArrowFactory(a))),
                        Undefined),
               "bindSingleton", type)
  /\ UNCHANGED diVars

\* register(constructor, paramTypes)
ModRegister(constructor, types) ==
  /\ AfterCall(RegisterConstructor(mod.paramTypes, Maps, constructor, types),
               "register", constructor)
  /\ UNCHANGED diVars

\* when(constructor).needs(type).give(implementation)
ModGive(constructor, type, implementation) ==
  /\ mod' = [mod EXCEPT
       !.bindings = Put(@, type, ReturnsFactory(implementation)),
       !.contextualBindings = ContextualSet(@, constructor, type, implementation),
       !.out = [NoCall EXCEPT !.op = "give", !.type = type]]
  /\ UNCHANGED diVars

\* extend that binds the original factory again.
ExtendBindingAsItWas(st, type, extender) ==
  IF type \notin DOMAIN st.bindings
  THEN Thrown(st, InvalidExtensionError(type))
  ELSE Returned(BindingSet(st, type, st.bindings[type]), Undefined)

\* extend(type, extender) on a type that has a binding or has none.
ExtendBinding(st, type, extender) ==
  IF type \notin DOMAIN st.bindings
  THEN Thrown(st, InvalidExtensionError(type))
  ELSE Returned(BindingSet(st, type, ExtendedFactory(extender, st.bindings[type])),
                Undefined)

ModExtend(type, extender) ==
  /\ type \in DOMAIN mod.bindings => Extensions(mod.bindings[type]) < MaxExtend
  /\ AfterCallBy(ExtendBinding(Maps, type, extender), "extend", type, extender)
  /\ UNCHANGED diVars

\* resolve(type)
ModResolve(type) ==
  /\ AfterCall(ResolveType(mod.paramTypes, Maps, type), "resolve", type)
  /\ UNCHANGED diVars

\* createInstance(constructor)
ModCreateInstance(constructor) ==
  /\ AfterCall(CreateInstance(mod.paramTypes, Maps, mod.contextualBindings, constructor),
               "createInstance", constructor)
  /\ UNCHANGED diVars

\* singleton(abstract, concrete) of the Laravel-style Container:
\* this.container.bindSingleton(abstract, () => ...concrete...)
LaravelSingleton(abstract, concrete) ==
  /\ AfterCall(Returned(BindingSet(Maps, abstract,
                          SingletonFactory(abstract, ConcreteFactory(concrete))),
                        Undefined),
               "singleton", abstract)
  /\ UNCHANGED diVars

\* make(abstract) of the Laravel-style Container after
\* this.container.resolve(abstract), r being its outcome: an instance whose
\* class declares paramTypes is constructed again from make of each of
\* them, a function is called, anything else is returned.
RECURSIVE Make(_, _, _)
RECURSIVE MakeEach(_, _, _, _)
ConstructAgain(r, type) == IF r.ok THEN Construct(r.st, type) ELSE r

MakeResolved(paramTypes, r) ==
  IF ~r.ok THEN r
  ELSE IF r.val.k = "instance" /\ r.val.key \in DOMAIN paramTypes
  THEN ConstructAgain(MakeEach(paramTypes, r, paramTypes[r.val.key], 1), r.val.key)
  ELSE IF r.val.k = "arrow" THEN CallFactory(r.st, ArrowFactory(r.val.f))
  ELSE IF r.val.k = "thunk" THEN Returned(r.st, r.val.of)
  ELSE IF r.val.k = "constructor" THEN Thrown(r.st, TypeError)
  ELSE r

Make(paramTypes, st, abstract) ==
  MakeResolved(paramTypes, ResolveType(paramTypes, st, abstract))

MakeEach(paramTypes, r, types, i) ==
  IF ~r.ok \/ i > Len(types) THEN r
  ELSE MakeEach(paramTypes, Make(paramTypes, r.st, types[i]), types, i + 1)

LaravelMake(abstract) ==
  /\ AfterCall(Make(mod.paramTypes, Maps, abstract), "make", abstract)
  /\ UNCHANGED diVars

(***************************************************************************)
(* Specifications.  Each one drives the same operations with the inputs    *)
(* of one family of scenarios.                                             *)
(***************************************************************************)

\* The number of invocations, in a call log, of the factory registered under
\* key on container c.
RECURSIVE CallsOf(_, _, _)
CallsOf(calls, c, key) ==
  IF calls = <<>> THEN 0
  ELSE (IF calls[1].c = c /\ calls[1].key = key THEN 1 ELSE 0)
       + CallsOf(Tail(calls), c, key)

LifetimeOf(c, x) ==
  IF MapHas(bindings[c], x) THEN MapGet(bindings[c], x).lifetime ELSE "none"

\* Lifetimes on one container: every kind of registration of A, whose
\* factory may need B, with middlewares, resolutions and disposal.
Next ==
  \/ \E f \in {"new", "needsB"} : Bind(Root, "A", f)
  \/ \E f \in {"new", "needsB"} : SingletonBind(Root, "A", f)
  \/ \E f \in {"new", "needsB"} : TransientBind(Root, "A", f)
  \/ \E f \in {"new", "needsB"} : ScopedBind(Root, "A", f)
  \/ Bind(Root, "B", "new")
  \/ Instance(Root, "A", Lit(1))
  \/ \E m \in {"pass", "short"} : Use(Root, m)
  \/ \E x \in {"A", "B"} : ResolveCall(Root, x, NoContext)
  \/ Dispose(Root)

Spec == Init /\ [][Next]_vars

\* A resolve(X) call of container c that returned.
ResolvedNow(c, x) ==
  /\ last.op = "resolve" /\ last.c = c /\ last.id = x
  /\ last.ctx = NoContext /\ last.ok

\* C1: for X registered with singleton(X, f), of two resolve(X) calls in a
\* row on the same container that return, the second returns the instance
\* the first returned and does not invoke f again.
C1_SingletonIdentical ==
  [][\A c \in created, x \in Ids :
       ( /\ LifetimeOf(c, x) = "Singleton"
         /\ x \notin DOMAIN aliases[c]
         /\ ResolvedNow(c, x)
         /\ ResolvedNow(c, x)' )
       => /\ last'.val = last.val
          /\ CallsOf(last'.calls, c, x) = 0]_vars

\* A resolve(X) step of container c for an identifier bound there with a
\* Transient lifetime (bind or transient), not aliased and with no instance
\* registered.
TransientResolve(c, x) ==
  /\ LifetimeOf(c, x) = "Transient"
  /\ x \notin DOMAIN aliases[c]
  /\ x \notin DOMAIN instances[c]
  /\ last'.op = "resolve" /\ last'.c = c /\ last'.id = x /\ last'.ctx = NoContext

NextErrors ==
  \/ \E f \in {"new", "needsB"} : Bind(Root, "A", f)
  \/ \E f \in {"new", "needsB"} : SingletonBind(Root, "A", f)
  \/ \E f \in {"new", "needsB"} : ScopedBind(Root, "A", f)
  \/ \E f \in {"new", "needsA"} : Bind(Root, "B", f)
  \/ \E f \in {"new", "needsA"} : SingletonBind(Root, "B", f)
  \/ \E f \in {"new", "needsA"} : ScopedBind(Root, "B", f)
  \/ \E c \in created \ {Root} : Bind(c, "A", "needsB")
  \/ Alias(Root, "A", "B")
  \/ Cardinality(created) < MaxContainers - 1 /\ CreateScope(Root)
  \/ \E c \in created, x \in {"A", "B"} : ResolveCall(c, x, NoContext)

SpecErrors == Init /\ [][NextErrors]_vars

\* Container d knows nothing of its own about x: no binding, no instance,
\* no alias.
LocallyUnknown(d, x) ==
  /\ ~MapHas(bindings[d], x)
  /\ x \notin DOMAIN instances[d]
  /\ x \notin DOMAIN aliases[d]

\* Neither d nor any ancestor of d provides x.
RECURSIVE Unprovided(_, _)
Unprovided(d, x) ==
  /\ LocallyUnknown(d, x)
  /\ parent[d] = NoParent \/ Unprovided(parent[d], x)

\* resolve(x) on d is answered by container c: d itself, or the ancestor the
\* request is handed up to.
RECURSIVE Delegates(_, _, _)
Delegates(d, c, x) ==
  \/ d = c
  \/ /\ d # c /\ LocallyUnknown(d, x) /\ parent[d] # NoParent
     /\ Delegates(parent[d], c, x)

\* On c, x is bound to a factory that resolves y, with nothing cached.
NeedsUncached(c, x, y) ==
  /\ MapHas(bindings[c], x)
  /\ Factories[MapGet(bindings[c], x).factory].deps = <<Dep(y, NoContext)>>
  /\ MapGet(bindings[c], x).instance = Undefined
  /\ x \notin DOMAIN instances[c]
  /\ x \notin DOMAIN aliases[c]

\* C4: in DIContainer, when the factory of x resolves y and the factory of
\* y resolves x on a container, nothing being cached, resolve(x) on it (or
\* on a scope that hands the request up to it) fails with
\* CircularDependencyError whose chain is x, y, x.
C4_CycleChain ==
  [][(impl = "DIContainer" /\ last'.op = "resolve")
       => \A c \in created, y \in Ids \ {last'.id} :
            ( /\ NeedsUncached(c, last'.id, y) /\ NeedsUncached(c, y, last'.id)
              /\ Delegates(last'.c, c, last'.id) )
            => /\ ~last'.ok
               /\ last'.err = CircularDependencyError(<<last'.id, y, last'.id>>)]_vars

\* resolve(A) on a scope, handed up to the root where A needs B and B needs
\* A, failed with the chain A, B, A.
C4_Witness ==
  /\ impl = "DIContainer"
  /\ last.op = "resolve" /\ last.id = "A" /\ last.c # Root /\ ~last.ok
  /\ last.err = CircularDependencyError(<<"A", "B", "A">>)
  /\ NeedsUncached(Root, "A", "B") /\ NeedsUncached(Root, "B", "A")

NextScopes ==
  \/ \E f \in {"new", "plain"} : ScopedBind(Root, "A", f)
  \/ \E f \in {"new", "plain"} : SingletonBind(Root, "A", f)
  \/ \E c \in created : CreateScope(c)
  \/ \E c \in created : ResolveCall(c, "A", NoContext)
  \/ \E c \in created : Dispose(c)

SpecScopes == Init /\ [][NextScopes]_vars

\* s is a scope obtained from p.createScope().
IsScopeOf(s, p) == parent[s] = p /\ Includes(children[p], s)

\* C2: with X registered via scoped(X, f) on P and scopes s1, s2 obtained
\* from P.createScope(), of two resolve(X) calls in a row that return, made
\* on s1 and then on s2, the second returns the instance of the first when
\* s1 and s2 are the same scope and a different instance when they are not.
C2_ScopedPerScope ==
  [][\A p \in created, s1 \in created, s2 \in created, x \in Ids :
       ( /\ LifetimeOf(p, x) = "Scoped"
         /\ x \notin DOMAIN aliases[p]
         /\ IsScopeOf(s1, p) /\ IsScopeOf(s2, p)
         /\ LocallyUnknown(s1, x) /\ LocallyUnknown(s2, x)
         /\ ResolvedNow(s1, x)
         /\ ResolvedNow(s2, x)' )
       => /\ s1 = s2 => last'.val = last.val
          /\ s1 # s2 => last'.val # last.val]_vars

\* The number of times v occurs in a sequence.
RECURSIVE Occurrences(_, _)
Occurrences(seq, v) ==
  IF seq = <<>> THEN 0
  ELSE (IF seq[1] = v THEN 1 ELSE 0) + Occurrences(Tail(seq), v)

\* The Singleton and Scoped instances container c holds: what its instance
\* store keeps for an identifier bound with one of these lifetimes, and
\* what its bindings cache.
Held(c) ==
  {instances[c][x] : x \in {y \in DOMAIN instances[c] :
                              LifetimeOf(c, y) \in {"Singleton", "Scoped"}}}
    \cup {e.instance : e \in {b \in Range(bindings[c]) : Truthy(b.instance)}}

\* C10: dispose() on a container calls the dispose method of every
\* Singleton and Scoped instance the container holds that has one, exactly
\* once each.
C10_DisposeReleasesHeld ==
  [][\A c \in created :
       (last'.op = "dispose" /\ last'.c = c)
       => \A v \in Held(c) :
            HasDispose(v) => Occurrences(last'.hooks, v) = 1]_vars

\* Contextual bindings: B registered on the root under every lifetime, an
\* override of B for the consumer A giving a value or a function, and
\* resolutions of B with and without the consumer.
NextContext ==
  \/ Bind(Root, "B", "new")
  \/ TransientBind(Root, "B", "new")
  \/ SingletonBind(Root, "B", "new")
  \/ ScopedBind(Root, "B", "new")
  \/ \E g \in {GiveValue(Lit(5)), GiveFunction("plain")} :
       WhenNeedsGive(Root, "A", "B", g)
  \/ \E ctx \in {"A", NoContext} : ResolveCall(Root, "B", ctx)
  \/ Dispose(Root)

SpecContext == Init /\ [][NextContext]_vars

\* v is what the giver g yields: the value itself, or an object built by
\* calling the function.
Yields(g, v) ==
  IF g.fn THEN v.k = "obj" /\ v.f = g.f ELSE v = g.value

\* C6: after a default registration of D and when(C).needs(D).give(V), a
\* resolve(D, C) that returns yields V (or what calling V builds) and a
\* resolve(D) without a context yields what the default factory builds,
\* whatever the lifetime of D and whatever was resolved before.
C6_ContextualOverride ==
  \A c \in created, d \in Ids :
    ( /\ last.op = "resolve" /\ last.c = c /\ last.id = d /\ last.ok
      /\ MapHas(bindings[c], d)
      /\ d \notin DOMAIN aliases[c]
      /\ PassThrough(c) )
    => /\ \A consumer \in Ids :
            (last.ctx = consumer /\ ContextualFor(c, consumer, d) # <<>>)
            => Yields(ContextualFor(c, consumer, d)[1].give, last.val)
       /\ last.ctx = NoContext
            => /\ last.val.k = "obj"
               /\ last.val.f = MapGet(bindings[c], d).factory

\* Aliases: B registered on the root, L made an alias of B on the root or
\* on a scope, and resolutions of both names from every container.
NextAlias ==
  \/ Bind(Root, "B", "new")
  \/ SingletonBind(Root, "B", "new")
  \/ \E c \in created : Alias(c, "L", "B")
  \/ Cardinality(created) < MaxContainers - 1 /\ CreateScope(Root)
  \/ \E c \in created, x \in {"L", "B"} : ResolveCall(c, x, NoContext)

SpecAlias == Init /\ [][NextAlias]_vars

\* Two calls with the same result: both return the same value or both fail
\* with the same kind of error, leaving the same tables.
SameOutcome(a, b) ==
  /\ a.ok = b.ok
  /\ a.val = b.val
  /\ a.err.type = b.err.type
  /\ a.st.bindings = b.st.bindings
  /\ a.st.instances = b.st.instances

\* C7: after alias(L, T) on a container, resolve(L) on it returns what
\* resolve(T) on it returns, or fails as it fails, with the same effect on
\* the caches; also on a scope whose ancestor alone binds T.
C7_AliasEquivalent ==
  \A c \in created, l \in Ids :
    l \in DOMAIN aliases[c]
    => SameOutcome(Resolve(Tables, c, l, NoContext),
                   Resolve(Tables, c, aliases[c][l], NoContext))

\* Tags: A bound as Transient and B as Singleton on the root, an instance
\* registered for A, lists of identifiers tagged t call after call, and
\* tagged(t).
TagLists == {<<>>, <<"A">>, <<"B">>, <<"A", "B">>, <<"B", "A">>, <<"B", "B">>}

NextTags ==
  \/ Bind(Root, "A", "new")
  \/ SingletonBind(Root, "B", "plain")
  \/ Instance(Root, "A", Lit(1))
  \/ \E abstracts \in TagLists : Tag(Root, abstracts, "t")
  \/ TaggedCall(Root, "t")
  \/ Dispose(Root)

SpecTags == Init /\ [][NextTags]_vars

\* The members of tag t on container c, as the tag table has them.
Members(c, t) == IF t \in DOMAIN tags[c] THEN tags[c][t] ELSE <<>>

\* v is what resolve(m) on c returns: the instance the store holds for m,
\* or else an object built by the factory bound to m.
ResolvesTo(c, m, v) ==
  IF m \in DOMAIN instances[c] THEN v = instances[c][m]
  ELSE /\ MapHas(bindings[c], m)
       /\ v.k = "obj" /\ v.key = m /\ v.f = MapGet(bindings[c], m).factory

\* C8: the members of a tag are the identifiers of all the tag() calls, in
\* call order (tag appends, never replaces); and tagged(t), when every
\* member resolves, returns one value per member, in that order, the i-th
\* being what resolve of the i-th member returns.
C8_TaggedInOrder ==
  \A c \in created, t \in TagNames :
    /\ Members(c, t) = tagLog[c][t]
    /\ ( /\ last.op = "tagged" /\ last.c = c /\ last.id = t
         /\ \A i \in 1..Len(tagLog[c][t]) : ~Unprovided(c, tagLog[c][t][i]) )
       => /\ last.ok
          /\ Len(last.vals) = Len(tagLog[c][t])
          /\ \A i \in 1..Len(last.vals) :
               ResolvesTo(c, tagLog[c][t][i], last.vals[i])

\* tagged(t), after tag([B], t) and tag([A], t), returned the Singleton of B
\* and then a new object of A.
C8_Witness ==
  /\ last.op = "tagged" /\ last.ok
  /\ tagLog[Root]["t"] = <<"B", "A">>
  /\ Len(last.vals) = 2
  /\ last.vals[1] = MapGet(bindings[Root], "B").instance
  /\ last.vals[2].k = "obj" /\ last.vals[2].key = "A"

\* C9: tagged(t) for a tag with no members fails with InvalidTagError.
C9_EmptyTagFails ==
  \A c \in created, t \in TagNames :
    ( /\ last.op = "tagged" /\ last.c = c /\ last.id = t
      /\ Members(c, t) = <<>> )
    => /\ ~last.ok
       /\ last.err = InvalidTagError(t)

\* Trees: A registered as a Singleton on any container, scopes created
\* with createScope from any container and children created with
\* createChild from the root, resolutions and disposal on every container.
NextTree ==
  \/ \E c \in created : SingletonBind(c, "A", "new")
  \/ \E c \in created : CreateScope(c)
  \/ CreateChild(Root)
  \/ \E c \in created : ResolveCall(c, "A", NoContext)
  \/ \E c \in created : Dispose(c)

SpecTree == Init /\ [][NextTree]_vars

\* d is a container below c in the tree.
Descendant(c, d) == d # c /\ IsAncestor(c, d)

\* Container d has nothing in its five tables.
TablesEmpty(d) ==
  /\ bindings[d] = <<>>
  /\ instances[d] = Empty
  /\ aliases[d] = Empty
  /\ tags[d] = Empty
  /\ contextualBindings[d] = Empty

\* C11: during dispose() of a container, the dispose method of every
\* instance held by a descendant is called before that of any instance the
\* container holds itself (the tables being cleared after the calls, which
\* the step does last).
C11_ChildrenHooksFirst ==
  [][last'.op = "dispose"
       => \A i \in 1..Len(last'.hooks), j \in 1..Len(last'.hooks) :
            ( /\ last'.hooks[i] \in Held(last'.c)
              /\ \E d \in created :
                   Descendant(last'.c, d) /\ last'.hooks[j] \in Held(d) )
            => j < i]_vars

\* C12: dispose() on a container disposes every descendant, created with
\* createScope or with createChild: afterwards the tables of each
\* descendant are empty and the dispose method of every instance it held
\* has been called.
C12_DisposeReachesDescendants ==
  [][last'.op = "dispose"
       => \A d \in created :
            Descendant(last'.c, d)
            => /\ TablesEmpty(d)'
               /\ \A v \in Held(d) :
                    HasDispose(v) => Occurrences(last'.hooks, v) = 1]_vars

\* C13: dispose() on a scope leaves every container that is not the scope
\* or below it, its parent and its siblings among them, as it was: the five
\* tables keep their contents and no dispose method of an instance such a
\* container holds is called.
C13_DisposeLeavesOthers ==
  [][(last'.op = "dispose" /\ parent[last'.c] # NoParent)
       => \A d \in created :
            ~IsAncestor(last'.c, d)
            => /\ bindings'[d] = bindings[d]
               /\ instances'[d] = instances[d]
               /\ aliases'[d] = aliases[d]
               /\ tags'[d] = tags[d]
               /\ contextualBindings'[d] = contextualBindings[d]
               /\ \A v \in Held(d) : Occurrences(last'.hooks, v) = 0]_vars

\* dispose() on a scope called the dispose method of the instance it held,
\* while its parent and a sibling still hold theirs.
C13_Witness ==
  /\ last.op = "dispose" /\ parent[last.c] = Root
  /\ last.hooks # <<>>
  /\ \E s \in created \ {Root, last.c} :
       /\ parent[s] = Root
       /\ \E v \in Held(s) : HasDispose(v)
  /\ \E v \in Held(Root) : HasDispose(v)

\* C14: a dispose() that follows a dispose() of the same container calls
\* no dispose method and leaves every table of every container as the first
\* call left it; dispose raises no error.
C14_DisposeIdempotent ==
  [][(last.op = "dispose" /\ last'.op = "dispose" /\ last'.c = last.c)
       => /\ last'.ok
          /\ last'.hooks = <<>>
          /\ <<bindings, instances, aliases, tags, contextualBindings,
               children>>' =
             <<bindings, instances, aliases, tags, contextualBindings,
               children>>]_vars

\* The root was disposed twice in a row, having had a scope; the first call
\* had cleared it.
C14_Witness ==
  /\ last.op = "dispose" /\ last.c = Root /\ last.again
  /\ \E s \in created : parent[s] = Root
  /\ TablesEmpty(Root)

\* The tables st after c registered entry under its key.
Registered(st, c, entry) ==
  [st EXCEPT !.bindings[c] = MapSet(@, entry.key, entry)]

\* Two calls, made on two containers, with the same result: both return a
\* value of the same kind built the same way, or both fail with the same
\* error.
SameResult(a, b) ==
  /\ a.ok = b.ok
  /\ a.err = b.err
  /\ a.val.k = b.val.k /\ a.val.f = b.val.f /\ a.val.n = b.val.n

\* The registrations made on a container to compare it with a new one.
Probes ==
  {Binding("A", "new", "Transient", "wrapped"),
   Binding("A", "new", "Singleton", "factory"),
   Binding("A", "new", "Scoped", "scoped")}

\* C15: after dispose() a container has its five tables empty, finds no
\* identifier locally, and answers a registration followed by a resolution
\* as a container just constructed with the same parent answers them.
C15_DisposedLikeNew ==
  \A c \in created :
    (last.op = "dispose" /\ last.c = c)
    => /\ TablesEmpty(c)
       /\ \A x \in Ids : LocallyUnknown(c, x)
       /\ \A n \in Containers \ created, e \in Probes :
            parent[n] = parent[c]
            => SameResult(Resolve(Registered(Tables, c, e), c, e.key, NoContext),
                          Resolve(Registered(Tables, n, e), n, e.key, NoContext))

\* C18: a resolve(X) that returns yields a value built by the factory of
\* the latest registration of X under the lifetime of that registration (a
\* new object when it is Transient), whatever was registered and resolved
\* under X before; X has no instance() registration and is no alias name,
\* and the middlewares return what their continue callback returns.
C18_LastWriteWins ==
  [][\A c \in created, x \in Ids :
       ( /\ MapHas(bindings[c], x)
         /\ x \notin DOMAIN aliases[c]
         /\ x \in DOMAIN instances[c] => instances[c][x].k = "obj"
         /\ PassThrough(c)
         /\ last'.op = "resolve" /\ last'.c = c /\ last'.id = x /\ last'.ok )
       => /\ last'.val.k = "obj"
          /\ last'.val.f = MapGet(bindings[c], x).factory
          /\ MapGet(bindings[c], x).lifetime = "Transient"
               => last'.val \notin LiveObjects]_vars

\* Shared singletons: A registered as a Singleton on the root, a middleware
\* on the root, containers created with createScope and createChild at any
\* depth, and resolutions from every container.
NextShared ==
  \/ SingletonBind(Root, "A", "new")
  \/ \E m \in {"pass", "short"} : Use(Root, m)
  \/ \E c \in created : CreateScope(c)
  \/ \E c \in created : CreateChild(c)
  \/ \E c \in created : ResolveCall(c, "A", NoContext)

SpecShared == Init /\ [][NextShared]_vars

\* C16: with X registered as a Singleton on P, of two resolve(X) calls in a
\* row that return, made on two different containers among P and the
\* containers below it that hand the request up to P, the second returns
\* the instance the first returned and does not invoke the factory again.
C16_SingletonContainerWide ==
  [][\A p \in created, x \in Ids :
       ( /\ LifetimeOf(p, x) = "Singleton"
         /\ x \notin DOMAIN aliases[p]
         /\ last.op = "resolve" /\ last.id = x /\ last.ok
         /\ last'.op = "resolve" /\ last'.id = x /\ last'.ok
         /\ last.c # last'.c
         /\ Delegates(last.c, p, x) /\ Delegates(last'.c, p, x) )
       => /\ last'.val = last.val
          /\ CallsOf(last'.calls, p, x) = 0]_vars

\* Registered instances: instance(A, v) on the root for a truthy and a
\* falsy v, A bound under every lifetime, an override of A for the consumer
\* B, middlewares, resolutions of A with and without the consumer, and
\* disposal.
NextInstance ==
  \/ \E v \in {Lit(1), Lit(0)} : Instance(Root, "A", v)
  \/ Bind(Root, "A", "new")
  \/ SingletonBind(Root, "A", "new")
  \/ ScopedBind(Root, "A", "new")
  \/ WhenNeedsGive(Root, "B", "A", GiveValue(Lit(5)))
  \/ \E m \in {"pass", "short"} : Use(Root, m)
  \/ \E ctx \in {"B", NoContext} : ResolveCall(Root, "A", ctx)
  \/ Dispose(Root)

SpecInstance == Init /\ [][NextInstance]_vars

\* C17: while the instance store of a container holds v for X, as after
\* instance(X, v), every resolve(X) and resolve(X, C) on it returns v,
\* invokes no factory and leaves the bindings, the instance store and the
\* construction stack as they were, whatever is bound to X or given for it
\* and whatever the middlewares; X is no alias name.
C17_InstanceFinal ==
  [][\A c \in created, x \in Ids :
       ( /\ x \in DOMAIN instances[c]
         /\ x \notin DOMAIN aliases[c]
         /\ last'.op = "resolve" /\ last'.c = c /\ last'.id = x )
       => /\ last'.ok
          /\ last'.val = instances[c][x]
          /\ last'.calls = <<>>
          /\ UNCHANGED <<bindings, instances, resolvingStack>>]_vars

\* resolve(A, B) returned the registered 1 on a container that binds A,
\* overrides A for B and has a middleware returning a value of its own.
C17_Witness ==
  /\ last.op = "resolve" /\ last.id = "A" /\ last.ctx = "B" /\ last.ok
  /\ last.val = Lit(1)
  /\ "A" \in DOMAIN instances[Root] /\ instances[Root]["A"] = Lit(1)
  /\ MapHas(bindings[Root], "A")
  /\ ContextualFor(Root, "B", "A") # <<>>
  /\ middlewares[Root] = <<"short">>

\* Schemas: A registered on the root with bind(A, f, schema) and in no
\* other way, f building an object that conforms, one that does not, or
\* forwarding what B resolves to; B registered under two lifetimes with
\* either kind of object; resolutions and disposal.
NextSchema ==
  \/ \E f \in {"new", "plain", "passB"} : BindSchema(Root, "A", f, "disposable")
  \/ \E f \in {"new", "plain"} : Bind(Root, "B", f)
  \/ \E f \in {"new", "plain"} : SingletonBind(Root, "B", f)
  \/ \E x \in {"A", "B"} : ResolveCall(Root, x, NoContext)
  \/ Dispose(Root)

SpecSchema == Init /\ [][NextSchema]_vars

\* The step leaves what container c binds to x as it was.
KeepsBinding(c, x) ==
  /\ MapHas(bindings'[c], x) <=> MapHas(bindings[c], x)
  /\ MapHas(bindings[c], x) => MapGet(bindings'[c], x) = MapGet(bindings[c], x)

\* What a bind(x, f, schema) step on c does, out being the outcome of f
\* called on c in the state before the step.
BindValidates(out, c, x, f, schema) ==
  /\ (out.ok /\ ~Conforms(schema, out.val))
       => /\ ~last'.ok
          /\ last'.err = InvalidSchemaError(x)
          /\ KeepsBinding(c, x)
  /\ (out.ok /\ Conforms(schema, out.val))
       => /\ last'.ok
          /\ MapGet(bindings'[c], x) = Binding(x, f, "Transient", "wrapped")

C20_ResolveValidates ==
  \A c \in created :
    ( /\ last.op = "resolve" /\ last.c = c /\ last.id = "A"
      /\ MapHas(bindings[c], "A")
      /\ last.ok )
    => Conforms("disposable", last.val)

\* Middlewares: A bound on the root to a factory that needs nothing or
\* needs B, B bound or not, middlewares of the four shapes registered one
\* after the other, and resolutions.
NextMiddleware ==
  \/ \E f \in {"new", "needsB"} : Bind(Root, "A", f)
  \/ Bind(Root, "B", "new")
  \/ \E m \in MiddlewareKinds : Use(Root, m)
  \/ \E x \in {"A", "B"} : ResolveCall(Root, x, NoContext)

SpecMiddleware == Init /\ [][NextMiddleware]_vars

\* The position of the first middleware of a list that does not return
\* next(), one past the end when there is none.
FirstNotPass(mws) ==
  IF \A j \in 1..Len(mws) : mws[j] = "pass" THEN Len(mws) + 1
  ELSE CHOOSE j \in 1..Len(mws) :
         /\ mws[j] # "pass"
         /\ \A i \in 1..(j - 1) : mws[i] = "pass"

\* A middleware of the list that calls its continue callback.
Continues(mws, j) == mws[j] \in {"pass", "twice"}

\* The step is a resolve(x) on c that built one value with one call of a
\* factory and returned.
BuiltOne(c, x) ==
  /\ last'.op = "resolve" /\ last'.c = c /\ last'.id = x /\ last'.ok
  /\ Len(last'.calls) = 1

\* C21: in a resolution that builds a value, the first function run is m1;
\* m(i+1) is run only right after mi, and only when mi invokes its continue
\* callback; the innermost callback, which hands over the built value, is
\* run only right after mn; nothing is run after a middleware that does not
\* invoke its callback; and the caller gets what m1 returns: the built
\* value when every middleware returns next(), the value of the first
\* middleware that returns one of its own otherwise.
C21_MiddlewareOrder ==
  [][\A c \in created, x \in Ids :
       BuiltOne(c, x)
       => /\ middlewares[c] # <<>> => last'.ran[1] = 1
          /\ \A k \in 1..Len(last'.ran) :
               /\ last'.ran[k] > 1
                    => /\ k > 1 /\ last'.ran[k - 1] = last'.ran[k] - 1
                       /\ Continues(middlewares[c], last'.ran[k] - 1)
               /\ (last'.ran[k] = 0 /\ middlewares[c] # <<>>)
                    => /\ k > 1 /\ last'.ran[k - 1] = Len(middlewares[c])
                       /\ Continues(middlewares[c], Len(middlewares[c]))
               /\ (last'.ran[k] > 0 /\ ~Continues(middlewares[c], last'.ran[k]))
                    => k = Len(last'.ran)
          /\ FirstNotPass(middlewares[c]) > Len(middlewares[c])
               => /\ last'.val.k = "obj" /\ last'.val.key = x
                  /\ last'.ran[Len(last'.ran)] = 0
          /\ ( /\ FirstNotPass(middlewares[c]) <= Len(middlewares[c])
               /\ middlewares[c][FirstNotPass(middlewares[c])] = "short" )
               => /\ last'.val = ShortValue
                  /\ last'.ran = [k \in 1..FirstNotPass(middlewares[c]) |-> k]]_vars

\* resolve(A) with a middleware that returns next() registered before one
\* that returns a value of its own: both ran, in that order, the built value
\* was not handed over, and the caller got the value of the second.
C21_Witness ==
  /\ last.op = "resolve" /\ last.id = "A" /\ last.ok
  /\ middlewares[Root] = <<"pass", "short">>
  /\ Len(last.calls) = 1
  /\ last.ran = <<1, 2>>
  /\ last.val = ShortValue

\* C22: in a resolution where a middleware that invokes its continue
\* callback twice is reached, no middleware and no innermost callback is
\* run more than once, and what comes back is the rejection 'next() called
\* multiple times'.
C22_NextTwice ==
  [][\A c \in created, x \in Ids :
       ( /\ BuiltOne(c, x)
         /\ FirstNotPass(middlewares[c]) <= Len(middlewares[c])
         /\ middlewares[c][FirstNotPass(middlewares[c])] = "twice" )
       => /\ \A j \in 0..Len(middlewares[c]) : Occurrences(last'.ran, j) <= 1
          /\ last'.val = Rejected("next() called multiple times")]_vars

\* resolve(A) with a middleware calling next() twice registered before one
\* that returns next(): each ran once, the innermost callback ran once.
C22_Witness ==
  /\ last.op = "resolve" /\ last.id = "A" /\ last.ok
  /\ middlewares[Root] = <<"twice", "pass">>
  /\ Len(last.calls) = 1
  /\ last.ran = <<1, 2, 0>>
  /\ last.val = Rejected("next() called multiple times")

\* C23: a resolve during which a middleware throws, or a factory asks for
\* an identifier nobody provides, fails: it does not return.
C23_ErrorsAreRaised ==
  \A c \in created :
    (last.op = "resolve" /\ last.c = c)
    => /\ (\E k \in 1..Len(last.ran) :
             last.ran[k] > 0 /\ middlewares[c][last.ran[k]] = "throws")
            => ~last.ok
       /\ (\E i \in 1..Len(last.calls) :
             /\ Factories[last.calls[i].f].deps # <<>>
             /\ Unprovided(c, Factories[last.calls[i].f].deps[1].id))
            => ~last.ok

\* C24: in the Container of src/container.ts, when the factory of x
\* resolves y and the factory of y resolves x on a container, nothing being
\* cached, resolve(x) on it (or on a scope that hands the request up to it)
\* fails with CircularDependencyError.
C24_ContainerCycleFails ==
  [][(impl = "Container" /\ last'.op = "resolve")
       => \A c \in created, y \in Ids \ {last'.id} :
            ( /\ NeedsUncached(c, last'.id, y) /\ NeedsUncached(c, y, last'.id)
              /\ Delegates(last'.c, c, last'.id) )
            => /\ ~last'.ok
               /\ last'.err.type = "CircularDependencyError"]_vars

\* Construction stacks: A and B bound on the root, each needing the other
\* or nothing, a scope, identifiers tagged, and every call that resolves:
\* resolve, resolveAsync, tagged and createInstance, from every container.
NextStack ==
  \/ \E f \in {"new", "needsB"} : Bind(Root, "A", f)
  \/ \E f \in {"new", "needsA"} : Bind(Root, "B", f)
  \/ \E abstracts \in {<<"A">>, <<"B", "A">>} : Tag(Root, abstracts, "t")
  \/ Cardinality(created) < MaxContainers - 1 /\ CreateScope(Root)
  \/ \E c \in created, x \in {"A", "B"} : ResolveCall(c, x, NoContext)
  \/ \E c \in created : ResolveAsyncCall(c, "A", NoContext)
  \/ TaggedCall(Root, "t")
  \/ \E c \in created : CreateInstanceCall(c, "L", "needsA")

SpecStack == Init /\ [][NextStack]_vars

\* C30: between calls the construction stack of every container is empty,
\* whether the call before returned or threw.
C30_StackBalanced ==
  \A c \in Containers : resolvingStack[c] = <<>>

\* resolve(A) on a scope, handed up to the root where A needs B and B needs
\* A, threw CircularDependencyError: the stacks of the scope and of the root
\* are empty again.
C30_Witness ==
  /\ last.op = "resolve" /\ last.id = "A" /\ last.c # Root /\ ~last.ok
  /\ impl = "DIContainer"
  /\ last.err = CircularDependencyError(<<"A", "B", "A">>)
  /\ resolvingStack[last.c] = <<>> /\ resolvingStack[Root] = <<>>

\* The start of a run of the Container of src/mod.ts with the constructors
\* declaring one of the given paramTypes tables.
InitWith(tables) ==
  /\ impl \in Classes
  /\ created = {Root}
  /\ parent = [c \in Containers |-> NoParent]
  /\ children = [c \in Containers |-> <<>>]
  /\ bindings = [c \in Containers |-> <<>>]
  /\ instances = [c \in Containers |-> Empty]
  /\ aliases = [c \in Containers |-> Empty]
  /\ tags = [c \in Containers |-> Empty]
  /\ contextualBindings = [c \in Containers |-> Empty]
  /\ resolvingStack = [c \in Containers |-> <<>>]
  /\ middlewares = [c \in Containers |-> <<>>]
  /\ last = Quiet
  /\ tagLog = [c \in Containers |-> [t \in TagNames |-> <<>>]]
  /\ mod \in {Constructed(paramTypes) : paramTypes \in tables}
  /\ pending = NoneInFlight

\* Contextual bindings: A needs config, B needs config and C; config and C
\* get default bindings, givers that are arrow functions or plain values,
\* undefined among both.
Consumers == [A |-> <<"config">>, B |-> <<"config", "C">>]
Implementations == {ArrowOf("local"), ArrowOf("nothing"), Lit(100), Undefined}

NextGive ==
  \/ \E type \in {"config", "C"} : ModBind(type, "default")
  \/ \E implementation \in Implementations :
       \/ ModGive("A", "config", implementation)
       \/ ModGive("B", "C", implementation)
  \/ ModGive("B", "config", ArrowOf("local"))
  \/ \E constructor \in {"A", "B"} : ModCreateInstance(constructor)
  \/ \E type \in {"config", "C"} : ModResolve(type)

SpecGive == InitWith({Consumers}) /\ [][NextGive]_vars

\* What a caller sees of a call.
Outcome(r) == <<r.ok, r.val, r.err>>

\* C25: a give() for a dependency that has a binding leaves what resolve
\* returns for the dependency as it was.
C25_GiveKeepsDefault ==
  [][(mod'.out.op = "give" /\ mod'.out.type \in DOMAIN mod.bindings)
       => Outcome(ResolveType(mod.paramTypes,
                              Through(mod'.bindings, mod'.singletons, InUse),
                              mod'.out.type))
          = Outcome(ResolveType(mod.paramTypes, Maps, mod'.out.type))]_vars

\* The parameters of a constructor that have a contextual giver, in order.
WithGiver(constructor) ==
  SelectSeq(ParamTypesOf(mod.paramTypes, constructor),
            LAMBDA p : /\ constructor \in DOMAIN mod.contextualBindings
                       /\ p \in DOMAIN mod.contextualBindings[constructor])

\* C26: a createInstance(C) in which a contextual giver yielded undefined
\* failed with InvalidContextualBindingError naming C and the parameter the
\* giver stands for, and did not run the constructor of C.
C26_UndefinedGiverFails ==
  (mod.out.op = "createInstance" /\ Includes(mod.out.gave, Undefined))
    => /\ ~mod.out.ok
       /\ mod.out.err = InvalidContextualBindingError(
                          mod.out.type, WithGiver(mod.out.type)[Len(mod.out.gave)])
       /\ ~Includes(mod.out.constructed, mod.out.type)

\* createInstance(B): the giver of config yielded an object, the giver of C
\* undefined, and the call failed naming B and C without constructing.
C26_Witness ==
  /\ mod.out.op = "createInstance" /\ mod.out.type = "B"
  /\ Len(mod.out.gave) = 2 /\ mod.out.gave[1].k = "instance"
  /\ mod.out.gave[2] = Undefined
  /\ mod.out.err = InvalidContextualBindingError("B", "C")
  /\ mod.out.constructed = <<>>

\* Extensions: config bound to one of two factories or as a singleton,
\* extended by either extender, C extended with or without a binding, and
\* both resolved.
NextExtend ==
  \/ \E a \in {"default", "local"} : ModBind("config", a)
  \/ ModBindSingleton("config", "default")
  \/ ModBind("C", "default")
  \/ \E type \in {"config", "C"}, extender \in Extenders : ModExtend(type, extender)
  \/ \E type \in {"config", "C"} : ModResolve(type)

SpecExtend == InitWith({NoParamTypes}) /\ [][NextExtend]_vars

\* C27: extend(X, e) on an X without a binding fails with
\* InvalidExtensionError and leaves the bindings as they were; on an X with
\* a binding, resolve(X) afterwards returns e applied to what resolve(X)
\* returned before the call.
C27_ExtendComposes ==
  [][mod'.out.op = "extend"
       => IF mod'.out.type \in DOMAIN mod.bindings
          THEN /\ mod'.out.ok
               /\ ResolveType(mod.paramTypes,
                              Through(mod'.bindings, mod'.singletons, InUse),
                              mod'.out.type).val
                  = ExtendedBy(mod'.out.by,
                               ResolveType(mod.paramTypes, Maps, mod'.out.type).val)
          ELSE /\ ~mod'.out.ok
               /\ mod'.out.err = InvalidExtensionError(mod'.out.type)
               /\ mod'.bindings = mod.bindings]_vars

\* resolve(config) after extend(config, decorate) and then
\* extend(config, wrap): wrap applied to decorate applied to the object of
\* the factory bound first.
C27_Witness ==
  /\ mod.out.op = "resolve" /\ mod.out.type = "config" /\ mod.out.ok
  /\ mod.out.val.k = "extended" /\ mod.out.val.by = "wrap"
  /\ mod.out.val.of.k = "extended" /\ mod.out.val.of.by = "decorate"
  /\ mod.out.val.of.of.k = "instance"
  /\ "C" \notin DOMAIN mod.bindings

\* Dependency graphs: every table giving each of the three constructors a
\* paramTypes list of at most MaxParams different constructors.
ParamLists ==
  {list \in UNION {[1..n -> Constructors] : n \in 0..MaxParams} :
     \A i, j \in 1..Len(list) : i # j => list[i] # list[j]}
Graphs == [Constructors -> ParamLists]

\* Constructors registered, A also with a detection from its parameters, B
\* bound to a factory of instances instead, and A created and resolved.
NextCycles ==
  \/ \E constructor \in Constructors : ModRegister(constructor, <<>>)
  \/ ModRegister("A", ParamTypesOf(mod.paramTypes, "A"))
  \/ ModBind("B", "default")
  \/ ModCreateInstance("A")
  \/ ModResolve("A")

SpecCycles == InitWith(Graphs) /\ [][NextCycles]_vars

\* y is a parameter of x, and the binding of y returns a constructor:
\* y is registered.
Edge(x, y) ==
  /\ Includes(ParamTypesOf(mod.paramTypes, x), y)
  /\ y \in DOMAIN mod.bindings
  /\ mod.bindings[y].t = "proxied"

\* A path of at most n edges, at least one, leads from x to y.
RECURSIVE Reaches(_, _, _)
Reaches(x, y, n) ==
  /\ n > 0
  /\ \/ Edge(x, y)
     \/ \E z \in Constructors : Edge(x, z) /\ Reaches(z, y, n - 1)

Size == Cardinality(Constructors)

\* A cycle among registered constructors is reachable from x.
CycleFrom(x) ==
  \E z \in Constructors :
    /\ z = x \/ Reaches(x, z, Size)
    /\ Reaches(z, z, Size)

\* Every parameter of x and of what x reaches has a binding.
AllBound(x) ==
  \A z \in Constructors :
    (z = x \/ Reaches(x, z, Size))
      => \A i \in 1..Len(ParamTypesOf(mod.paramTypes, z)) :
           ParamTypesOf(mod.paramTypes, z)[i] \in DOMAIN mod.bindings

\* chain is a path of the graph from x that ends in the first constructor
\* it repeats.
DiscoveryPath(chain, x) ==
  /\ Len(chain) >= 2 /\ chain[1] = x
  /\ \A i \in 1..(Len(chain) - 1) : Edge(chain[i], chain[i + 1])
  /\ \A i, j \in 1..(Len(chain) - 1) : i # j => chain[i] # chain[j]
  /\ Includes(Front(chain), chain[Len(chain)])

\* The detection of this step starts from a constructor it can start from:
\* createInstance(x), or resolve(x) of an x that has a binding.
Detects ==
  \/ mod'.out.op = "createInstance"
  \/ mod'.out.op = "resolve" /\ mod'.out.type \in DOMAIN mod.bindings

Circular(out) == ~out.ok /\ out.err.type = "CircularDependencyError"

Starts ==
  {mod'.out.type} \cup
    (IF mod'.out.op = "createInstance"
     THEN Range(ParamTypesOf(mod.paramTypes, mod'.out.type)) ELSE {})

Declared == [A |-> <<"B">>, C |-> <<>>]
Concretes ==
  {ConstructorOf(constructor) : constructor \in Constructors}
    \cup {ArrowOf("default"), Lit(7)}

NextLaravel ==
  \/ \E concrete \in Concretes : LaravelSingleton("config", concrete)
  \/ LaravelSingleton("B", ConstructorOf("B"))
  \/ \E abstract \in {"config", "B"} : LaravelMake(abstract)

SpecLaravel == InitWith({Declared}) /\ [][NextLaravel]_vars

\* C29: two make(abstract) calls in a row on a singleton registration that
\* both return, return the identical instance.
C29_SingletonMakeIdentical ==
  [][( /\ mod.out.op = "make" /\ mod'.out.op = "make"
       /\ mod'.out.type = mod.out.type
       /\ mod.out.ok /\ mod'.out.ok )
       => mod'.out.val = mod.out.val]_vars

\* Chains of aliases: B bound on the root, A registered or not, L an alias
\* of A and A an alias of B on the root or on a scope, and resolutions of
\* the three names from every container.
NextChain ==
  \/ Bind(Root, "B", "new")
  \/ Bind(Root, "A", "plain")
  \/ Instance(Root, "A", Lit(1))
  \/ \E c \in created : Alias(c, "L", "A")
  \/ \E c \in created : Alias(c, "A", "B")
  \/ Cardinality(created) < MaxContainers - 1 /\ CreateScope(Root)
  \/ \E c \in created, x \in Ids : ResolveCall(c, x, NoContext)

SpecChain == Init /\ [][NextChain]_vars

\* The name the alias table of d holds for x, x itself when it holds none.
Named(d, x) == IF x \in DOMAIN aliases[d] THEN aliases[d][x] ELSE x

\* Container d has an instance or a binding under the name its alias table
\* holds for x.
Provides(d, x) ==
  \/ Named(d, x) \in DOMAIN instances[d]
  \/ MapHas(bindings[d], Named(d, x))

\* On container c, l2 is an alias of l1 and l1 an alias of a bound t.
AliasChain(c, l2, l1, t) ==
  /\ l2 \in DOMAIN aliases[c] /\ aliases[c][l2] = l1
  /\ l1 \in DOMAIN aliases[c] /\ aliases[c][l1] = t
  /\ l1 # l2 /\ t # l1
  /\ MapHas(bindings[c], t)

\* C39: with alias(L2, L1) and alias(L1, T) on a container that binds T,
\* where L1 has neither a binding nor an instance there (and no ancestor
\* answers for L2), resolve(L2) fails with UnresolvedDependencyError naming
\* L2: the alias table is consulted once, never transitively.
C39_AliasOnce ==
  [][\A c \in created, l2 \in Ids, l1 \in Ids, t \in Ids :
       ( /\ AliasChain(c, l2, l1, t)
         /\ \A d \in created : IsAncestor(d, c) => ~Provides(d, l2)
         /\ last'.op = "resolve" /\ last'.c = c /\ last'.id = l2 )
       => /\ ~last'.ok
          /\ last'.err = UnresolvedDependencyError(l2)]_vars

C39_Witness ==
  /\ AliasChain(Root, "L", "A", "B")
  /\ ~Provides(Root, "L")
  /\ last.op = "resolve" /\ last.c = Root /\ last.id = "L"
  /\ ~last.ok /\ last.err = UnresolvedDependencyError("L")

\* C34: when a resolve(X) call of a Singleton X has built the instance and
\* returned, the value it returned is the value the container cached, and
\* the value a resolve(X) made next returns, whatever middlewares are
\* registered.
C34_CachedIsReturned ==
  \A c \in created, x \in Ids :
    ( /\ ResolvedNow(c, x)
      /\ LifetimeOf(c, x) = "Singleton"
      /\ CallsOf(last.calls, c, x) = 1 )
    => /\ x \in DOMAIN instances[c]
       /\ instances[c][x] = last.val
       /\ Resolve(Tables, c, x, NoContext).ok
       /\ Resolve(Tables, c, x, NoContext).val = last.val

\* Givers of every kind: B bound on the root as Transient or Singleton, an
\* override of B for the consumers A and L giving a truthy literal, the
\* falsy literal 0 or a function, and resolutions of B with and without a
\* consumer.
NextFalsy ==
  \/ Bind(Root, "B", "new")
  \/ SingletonBind(Root, "B", "new")
  \/ \E consumer \in {"A", "L"},
        g \in {GiveValue(Lit(0)), GiveValue(Lit(5)), GiveFunction("plain")} :
       WhenNeedsGive(Root, consumer, "B", g)
  \/ \E ctx \in {"A", "L", NoContext} : ResolveCall(Root, "B", ctx)

SpecFalsy == Init /\ [][NextFalsy]_vars

\* X is bound on c and not cached: no instance is stored under X and the
\* binding holds none.
BoundUncached(c, x) ==
  /\ MapHas(bindings[c], x)
  /\ x \notin DOMAIN instances[c]
  /\ MapGet(bindings[c], x).instance = Undefined

\* The step is a resolve(x, consumer) on c.
ResolvesFor(c, x, consumer) ==
  /\ last'.op = "resolve" /\ last'.c = c /\ last'.id = x /\ last'.ctx = consumer

\* C32: when a contextual entry exists for (C, X) and X is bound and not
\* cached, resolve(X, C) returns the giver's value (the literal, or what
\* calling the giver builds) and does not invoke the default factory of X,
\* for every giver value, the falsy literal 0 included.
C32_GiverValueReturned ==
  [][\A c \in created, x \in Ids, consumer \in Ids :
       ( /\ ContextualFor(c, consumer, x) # <<>>
         /\ BoundUncached(c, x)
         /\ x \notin DOMAIN aliases[c]
         /\ ResolvesFor(c, x, consumer) )
       => /\ last'.ok
          /\ Yields(ContextualFor(c, consumer, x)[1].give, last'.val)
          /\ ~Includes(last'.calls, Call(c, x, MapGet(bindings[c], x).factory))]_vars

\* Consumers on scopes: B bound on the root as Transient or Singleton, an
\* override of B for the consumer A on the root or on a scope, scopes, and
\* resolutions of B with and without the consumer from every container.
NextHandUp ==
  \/ Bind(Root, "B", "new")
  \/ SingletonBind(Root, "B", "new")
  \/ \E c \in created, g \in {GiveValue(Lit(5)), GiveFunction("plain")} :
       WhenNeedsGive(c, "A", "B", g)
  \/ Cardinality(created) < MaxContainers - 1 /\ CreateScope(Root)
  \/ \E c \in created, ctx \in {"A", NoContext} : ResolveCall(c, "B", ctx)

SpecHandUp == Init /\ [][NextHandUp]_vars

\* Container c has nothing of its own for x and hands resolve(x) to its
\* parent, which binds x.
HandsUp(c, x) ==
  /\ parent[c] # NoParent
  /\ x \notin DOMAIN aliases[c]
  /\ x \notin DOMAIN instances[c]
  /\ ~MapHas(bindings[c], x)
  /\ x \notin DOMAIN aliases[parent[c]]
  /\ MapHas(bindings[parent[c]], x)

\* C33: a resolve(X, C) on a scope that misses locally and is handed to the
\* parent returns what resolve(X, C) on the parent, which holds the binding
\* of X, returns: the contextual override for (C, X) is applied.
C33_ContextHandedUp ==
  [][\A c \in created, x \in Ids, consumer \in Ids :
       ( /\ HandsUp(c, x)
         /\ ContextualFor(parent[c], consumer, x) # <<>>
         /\ ResolvesFor(c, x, consumer) )
       => /\ last'.ok = Resolve(Tables, parent[c], x, consumer).ok
          /\ last'.val = Resolve(Tables, parent[c], x, consumer).val]_vars

\* Injection: B bound on the root under every lifetime or registered as an
\* instance, an override of B for the consumer A, createInstance of the
\* class A whose paramTypes are [B], and resolutions of B with and without
\* the consumer.
NextInject ==
  \/ Bind(Root, "B", "new")
  \/ SingletonBind(Root, "B", "new")
  \/ ScopedBind(Root, "B", "new")
  \/ Instance(Root, "B", Lit(1))
  \/ \E g \in {GiveValue(Lit(5)), GiveFunction("plain")} :
       WhenNeedsGive(Root, "A", "B", g)
  \/ CreateInstanceCall(Root, "A", "needsB")
  \/ \E ctx \in {"A", NoContext} : ResolveCall(Root, "B", ctx)

SpecInject == Init /\ [][NextInject]_vars

\* The step is a createInstance(target) on c, target being a class of the
\* shape f, in a specification that resolves other identifiers only.
Creates(c, target) ==
  /\ last'.op = "resolve" /\ last'.c = c /\ last'.id = target
  /\ last'.ctx = NoContext

\* C38: what createInstance(C) injects for the dependency D of C, that is
\* resolveWithContext(D, C), is what resolve(D, C) returns in the same
\* state: the same value (override or cached instance) or the same failure,
\* with the same factories invoked.
C38_InjectionIsResolve ==
  [][\A c \in created :
       Creates(c, "A")
       => /\ ResolveWithContext(Tables, c, "B", "A").ok
               = Resolve(Tables, c, "B", "A").ok
          /\ ResolveWithContext(Tables, c, "B", "A").val
               = Resolve(Tables, c, "B", "A").val
          /\ ResolveWithContext(Tables, c, "B", "A").err
               = Resolve(Tables, c, "B", "A").err
          /\ ResolveWithContext(Tables, c, "B", "A").st.calls
               = Resolve(Tables, c, "B", "A").st.calls]_vars

\* The tables at the start of the try block of a resolve(x) on c.
Pushed(c, x) == [Tables EXCEPT !.stack[c] = Append(@, x)]

\* C37: Container of src/container.ts and DIContainer give the same result
\* and reach the same binding and instance tables for every resolution
\* whose dependency graph has no cycle: in a resolve(X, C) step of either
\* class on a bound X, the lifetime dispatch of the one class and that of
\* the other, run on the tables of the step, return the same value or fail
\* alike and leave the same tables.
C37_SameDispatch ==
  [][\A c \in created, x \in Ids, ctx \in Ids \cup {NoContext} :
       ( /\ ResolvesFor(c, x, ctx)
         /\ MapHas(bindings[c], x)
         /\ x \notin DOMAIN aliases[c]
         /\ x \notin DOMAIN instances[c] )
       => SameOutcome(
            InstantiateDI(Pushed(c, x), c, x, MapGet(bindings[c], x), ctx),
            InstantiateContainer(Pushed(c, x), c, x, MapGet(bindings[c], x), ctx))]_vars

\* Failing factories: A registered as Singleton or Scoped with a factory
\* that builds an object, that throws while B is not bound (its nested
\* resolve(B) fails), or that is async and returns a promise that rejects;
\* and resolve and resolveAsync of A.
NextFailing ==
  \/ \E f \in {"new", "needsB", "failing"} : SingletonBind(Root, "A", f)
  \/ \E f \in {"new", "needsB", "failing"} : ScopedBind(Root, "A", f)
  \/ Bind(Root, "B", "new")
  \/ \E x \in {"A", "B"} : ResolveCall(Root, x, NoContext)
  \/ ResolveAsyncCall(Root, "A", NoContext)
  \/ Dispose(Root)

SpecFailing == Init /\ [][NextFailing]_vars

\* The last call was a resolve(x) or resolveAsync(x) on c, x being bound
\* there as a Singleton or Scoped, that invoked the factory of x.
BuiltBy(c, x) ==
  /\ last.op = "resolve" /\ last.c = c /\ last.id = x
  /\ LifetimeOf(c, x) \in {"Singleton", "Scoped"}
  /\ Includes(last.calls, Call(c, x, MapGet(bindings[c], x).factory))

\* The factory invoked by the last call threw.
FactoryThrew == ~last.ok /\ last.err.type # "Error"

\* The factory invoked by the last call returned a promise that rejects:
\* resolve returned that promise, resolveAsync raised its reason.
FactoryRejected ==
  \/ last.ok /\ last.val.k = "rejected"
  \/ ~last.ok /\ last.err.type = "Error"

\* Nothing is cached for x on c.
NothingCached(c, x) ==
  /\ x \notin DOMAIN instances[c]
  /\ MapGet(bindings[c], x).instance = Undefined

\* The next resolve(x) on c invokes the factory of x.
InvokesAgain(c, x) ==
  Includes(Resolve(Tables, c, x, NoContext).st.calls,
           Call(c, x, MapGet(bindings[c], x).factory))

\* C31: when the factory of a Singleton or Scoped binding fails, by throwing
\* or by returning a promise that rejects, no cached instance is recorded
\* on the binding or in the instance store, and the next resolve(X) invokes
\* the factory again.
C31_NoCacheOnFailure ==
  \A c \in created, x \in Ids :
    (BuiltBy(c, x) /\ (FactoryThrew \/ FactoryRejected))
    => NothingCached(c, x) /\ InvokesAgain(c, x)

(***************************************************************************)
(* resolveAsync with async factories.  A step is what runs between two     *)
(* suspension points: a resolveAsync call up to its await, the rest of the *)
(* body of an async factory after its first await, or the resumption of    *)
(* an await whose promise has settled.  The promises of the suspended      *)
(* factories and of the resolveAsync calls made from outside are kept in   *)
(* pending.                                                                *)
(***************************************************************************)
MaxPromises == 4
MaxTops == 2

\* The promise of an invocation of an async factory, suspended at its first
\* await.
Suspended(call) == [err |-> NoError, call |-> call, state |-> "suspended", on |-> 0]

\* The promises of the async factories invoked in a call log, in order.
NewPromises(calls) ==
  [i \in 1..Launched(calls) |->
     Suspended(SelectSeq(calls, LAMBDA x : Factories[x.f].awaits)[i])]

\* const instance = this.resolve(abstract, context);
\* return instance instanceof Promise ? await instance : instance
\* r being the outcome of resolve: an error thrown inside the async function
\* rejects its promise, a promise is awaited, anything else fulfils it.
AwaitOutcome(r) ==
  IF ~r.ok THEN [err |-> r.err, state |-> "rejected", on |-> 0]
  ELSE IF r.val.k = "promise" THEN [err |-> NoError, state |-> "waiting", on |-> r.val.n]
  ELSE IF r.val.k = "rejected"
  THEN [err |-> [id |-> r.val.f, type |-> "Error", chain |-> <<>>],
        state |-> "rejected", on |-> 0]
  ELSE [err |-> NoError, state |-> "fulfilled", on |-> 0]

\* The promise a resolveAsync(abstract) call on c returns, a being where its
\* await stands.
Top(c, abstract, a) ==
  [c |-> c, id |-> abstract, err |-> a.err, state |-> a.state, on |-> a.on]

\* The state after a step that ran resolve with outcome r and left the
\* promises and the calls as inflight.
AfterStep(r, inflight) ==
  /\ Len(inflight.promises) <= MaxPromises
  /\ bindings' = r.st.bindings
  /\ instances' = r.st.instances
  /\ resolvingStack' = r.st.stack
  /\ pending' = inflight
  /\ last' = Quiet
  /\ UNCHANGED <<mod, impl, created, parent, children, aliases, tags,
                 contextualBindings, middlewares, tagLog>>

\* pending after a resolveAsync(abstract) call on c whose resolve had the
\* outcome r.
Started(r, c, abstract) ==
  [promises |-> pending.promises \o NewPromises(r.st.calls),
   tops |-> Append(pending.tops, Top(c, abstract, AwaitOutcome(r)))]

\* A resolveAsync(abstract) call made from outside, up to its await.
StartResolveAsync(c, abstract) ==
  /\ c \in created
  /\ Len(pending.tops) < MaxTops
  /\ AfterStep(Resolve(Tables, c, abstract, NoContext),
               Started(Resolve(Tables, c, abstract, NoContext), c, abstract))

\* pending after the body of the i-th promise's factory ran on from its
\* first await with await container.resolveAsync(dependency), r being the
\* outcome of the resolve in it.
Continued(r, i) ==
  [pending EXCEPT
     !.promises = [@ EXCEPT ![i].state = AwaitOutcome(r).state,
                            ![i].on = AwaitOutcome(r).on,
                            ![i].err = AwaitOutcome(r).err]
                  \o NewPromises(r.st.calls)]

\* The body of the i-th promise's factory from its first await on: it
\* returns a new object when it has no dependency, and otherwise awaits
\* container.resolveAsync(dependency).
Continue(i) ==
  /\ i \in 1..Len(pending.promises)
  /\ pending.promises[i].state = "suspended"
  /\ IF Factories[pending.promises[i].call.f].deps = <<>>
     THEN AfterStep(Returned(Tables, Undefined),
                    [pending EXCEPT !.promises[i].state = "fulfilled"])
     ELSE AfterStep(
            Resolve(Tables, pending.promises[i].call.c,
                    Factories[pending.promises[i].call.f].deps[1].id, NoContext),
            Continued(Resolve(Tables, pending.promises[i].call.c,
                              Factories[pending.promises[i].call.f].deps[1].id,
                              NoContext), i))

\* What an await makes of the promise it waited on, once that is settled:
\* the awaiting function goes on to return, or fails with the same error.
Resumed(waiter, awaited) ==
  [waiter EXCEPT !.state = awaited.state, !.on = 0, !.err = awaited.err]

Settled(p) == p.state \in {"fulfilled", "rejected"}

\* The resumption of the await of the i-th promise's factory.
Settle(i) ==
  /\ i \in 1..Len(pending.promises)
  /\ pending.promises[i].state = "waiting"
  /\ Settled(pending.promises[pending.promises[i].on])
  /\ AfterStep(Returned(Tables, Undefined),
               [pending EXCEPT !.promises[i] =
                   Resumed(@, pending.promises[pending.promises[i].on])])

\* The resumption of the await of the t-th resolveAsync call.
SettleTop(t) ==
  /\ t \in 1..Len(pending.tops)
  /\ pending.tops[t].state = "waiting"
  /\ Settled(pending.promises[pending.tops[t].on])
  /\ AfterStep(Returned(Tables, Undefined),
               [pending EXCEPT !.tops[t] =
                   Resumed(@, pending.promises[pending.tops[t].on])])

\* The registrations of A and B made before anything is resolved: each by
\* singleton() or transient(), with a factory that builds at once, that
\* resolves the other in its body, or that is async and resolves the other
\* (or nothing) after a suspension point.
Registrations ==
  { <<Binding("A", fa, la, "factory"), Binding("B", fb, lb, "factory")>> :
      fa \in {"new", "needsB", "laterB"}, fb \in {"new", "needsA", "laterA", "later"},
      la \in {"Singleton", "Transient"}, lb \in {"Singleton", "Transient"} }

\* The start of a run after the registrations of one of the given tables
\* were made on the root.
InitRegistered(tables) ==
  /\ impl = "DIContainer"
  /\ created = {Root}
  /\ parent = [c \in Containers |-> NoParent]
  /\ children = [c \in Containers |-> <<>>]
  /\ bindings \in {[c \in Containers |-> IF c = Root THEN table ELSE <<>>] :
                      table \in tables}
  /\ instances = [c \in Containers |-> Empty]
  /\ aliases = [c \in Containers |-> Empty]
  /\ tags = [c \in Containers |-> Empty]
  /\ contextualBindings = [c \in Containers |-> Empty]
  /\ resolvingStack = [c \in Containers |-> <<>>]
  /\ middlewares = [c \in Containers |-> <<>>]
  /\ last = Quiet
  /\ tagLog = [c \in Containers |-> [t \in TagNames |-> <<>>]]
  /\ mod = Constructed(NoParamTypes)
  /\ pending = NoneInFlight

InitAsync == InitRegistered(Registrations)

NextAsync ==
  \/ \E x \in {"A", "B"} : StartResolveAsync(Root, x)
  \/ \E i \in 1..MaxPromises : Continue(i)
  \/ \E i \in 1..MaxPromises : Settle(i)
  \/ \E t \in 1..MaxTops : SettleTop(t)

SpecAsync == InitAsync /\ [][NextAsync]_vars

\* The factory bound to x on c calls resolve(y) in its synchronous body,
\* that is while x is on the construction stack.
DependsOn(c, x, y) ==
  /\ MapHas(bindings[c], x)
  /\ ~Factories[MapGet(bindings[c], x).factory].awaits
  /\ \E k \in 1..Len(Factories[MapGet(bindings[c], x).factory].deps) :
       Factories[MapGet(bindings[c], x).factory].deps[k].id = y

\* The chain of a CircularDependencyError is one calling chain: each
\* identifier of it is resolved by the factory of the one before.
OwnChain(c, chain) ==
  /\ Len(chain) >= 2
  /\ \A i \in 1..(Len(chain) - 1) : DependsOn(c, chain[i], chain[i + 1])

\* C35: a CircularDependencyError that a resolveAsync call or an async
\* factory meets reports a chain of identifiers under construction in one
\* calling chain, each resolved by the factory of the one before; top-level
\* resolutions in flight at the same time over the same identifiers never
\* make each other fail with it.
C35_OwnChainOnly ==
  /\ \A t \in 1..Len(pending.tops) :
       pending.tops[t].err.type = "CircularDependencyError"
       => OwnChain(pending.tops[t].c, pending.tops[t].err.chain)
  /\ \A i \in 1..Len(pending.promises) :
       pending.promises[i].err.type = "CircularDependencyError"
       => OwnChain(pending.promises[i].call.c, pending.promises[i].err.chain)

\* Two resolveAsync(A) calls in flight at once, the factory of the first
\* already past its suspension point and waiting for B.
C35_Witness ==
  /\ Len(pending.tops) = 2
  /\ pending.tops[1].id = "A" /\ pending.tops[2].id = "A"
  /\ pending.tops[1].state = "waiting" /\ pending.tops[2].state = "waiting"
  /\ pending.tops[1].on # pending.tops[2].on
  /\ pending.promises[pending.tops[1].on].state = "waiting"
  /\ pending.promises[pending.tops[2].on].state = "suspended"

\* The registrations with async factories only: A's factory awaits and
\* then calls resolveAsync(B); B's awaits and then calls resolveAsync(A), or
\* resolves nothing.
AsyncRegistrations ==
  {table \in Registrations :
     table[1].factory = "laterB" /\ table[2].factory \in {"laterA", "later"}}

\* The event loop runs every continuation that is ready.
SpecAsyncFair ==
  /\ InitRegistered(AsyncRegistrations) /\ [][NextAsync]_vars
  /\ WF_vars(\E i \in 1..MaxPromises : Continue(i))
  /\ WF_vars(\E i \in 1..MaxPromises : Settle(i))
  /\ WF_vars(\E t \in 1..MaxTops : SettleTop(t))

\* A's factory awaits and then calls resolveAsync(B), B's factory awaits
\* and then calls resolveAsync(A).
AsyncCycle ==
  /\ MapGet(bindings[Root], "A").factory = "laterB"
  /\ MapGet(bindings[Root], "B").factory = "laterA"

\* C36: with A's factory awaiting and then calling resolveAsync(B), and B's
\* awaiting and then calling resolveAsync(A), a resolveAsync(A) call
\* eventually settles with CircularDependencyError.
C36_AsyncCycleSettles ==
  (AsyncCycle /\ pending.tops # <<>> /\ pending.tops[1].id = "A")
  ~> ( /\ pending.tops # <<>>
       /\ pending.tops[1].state = "rejected"
       /\ pending.tops[1].err.type = "CircularDependencyError" )

====
